---- MODULE Spec2Model ----
(***************************************************************************)
(* Verification model of the Frisbee scenario execution engine.            *)
(*                                                                         *)
(* The module holds several specifications over one set of variables:      *)
(*   SpecSched   the logical scheduler, GetNextLogicalJob                  *)
(*               (controllers/scenario/scheduler.go)                       *)
(*   SpecLife    the reconciliation rounds of one object and its children: *)
(*               a Stop or a Call (calculateLifecycle of                   *)
(*               controllers/stop/lifecycle.go and                         *)
(*               controllers/call/lifecycle.go inside the Reconcile of the *)
(*               controllers of grouped jobs), a Service                   *)
(*               (controllers/service/controller.go) or a Chaos            *)
(*               (controllers/chaos/reconciler.go)                         *)
(*   SpecReduce  the grouped-job reducer applied on its own                *)
(*   SpecChain   the rounds of a Scenario that runs a chain of three       *)
(*               actions, under fair scheduling                            *)
(*   SpecValidate the validation of a submitted action list                *)
(*               (controllers/testplan/graph.go)                           *)
(*   SpecCron    the time scheduler (pkg/netutils/ip.go)                   *)
(*   SpecSchedule the scheduling decision, by event or by time             *)
(*               (Schedule of pkg/netutils/ip.go)                          *)
(*   SpecView    the classifier of a controller that reconciles two        *)
(*               objects (controllers/common/lifecycle/accessor.go and the *)
(*               controllers' Reconcile)                                   *)
(*   SpecFinal   the finalizer bookkeeping of a controller's rounds        *)
(*               (Reconcile of controllers/chaos/reconciler.go)            *)
(*   SpecStop    the Stop action of a workflow                             *)
(*               (stop of controllers/workflow/workflow.go)                *)
(*   SpecTelemetry the rounds of a Telemetry object and its two services   *)
(*               (controllers/telemetry/lifecycle.go)                      *)
(*   SpecRelease the rounds that release an object under deletion, with    *)
(*               the requests of the work queue, under fair scheduling     *)
(*               (Reconcile of controllers/chaos/reconciler.go)            *)
(*   SpecWebhook the goroutines of the alerting webhook server             *)
(*               (CreateWebhookServer of                                   *)
(*               controllers/scenario/telemetry.go)                        *)
(* Each specification leaves the variables of the others untouched.        *)
(* lifecycle.GroupedJobs, lifecycle.Classifier, the expression evaluator   *)
(* and the lifecycle.Pending/Running/Success/Failed writers are not among  *)
(* the sources; they follow the specification document.                    *)
(***************************************************************************)
EXTENDS Integers, Sequences, FiniteSets, TLC

VARIABLES
    \* ---- logical scheduler (SpecSched) ----
    plan,       \* all []v1alpha1.Action: the declared action list
    view,       \* gs lifecycle.ClassifierReader: action name -> phase of its child
    executed,   \* executed map[string]ConditionalExpr: the names already dispatched
    now,        \* the wall clock, metav1.Now()
    last,       \* inputs' clock readings and outputs of the latest call
    prev,       \* the same for the call before it
    \* ---- grouped-job parents: Stop and Call objects (SpecLife) ----
    kind,           \* the kind of the reconciled object: "Stop", "Call", "Service", "Chaos"
    services,       \* len(cr.Spec.Services)
    until,          \* cr.Spec.Until: "none", or the kind of its expression
    tolerate,       \* cr.Spec.Tolerate.FailedJobs
    status,         \* cr.Status.Lifecycle: Phase, Reason and the true Conditions
    scheduledJobs,  \* cr.Status.ScheduledJobs
    lastScheduleTime,   \* cr.Status.LastScheduleTime; the zero time is nil
    children,       \* the object store: child name -> phase of the child
    round,          \* what the latest reconciliation round did
    suspend,        \* cr.Spec.Suspend as the store holds it
    \* ---- the grouped-job reducer on its own (SpecReduce) ----
    red,            \* one application of the reducer: its inputs and its result
    \* ---- a Scenario running the linear chain (SpecChain) ----
    scn,            \* the Scenario's status, its children and the log of its rounds
    \* ---- the validator of action lists (SpecValidate) ----
    val,            \* a submitted action list and the validator's verdict on it
    \* ---- the time scheduler (SpecCron) ----
    cron,           \* the inputs of one scheduling decision and its result
    \* ---- the scheduling decision of one object (SpecSchedule) ----
    sch,            \* the schedule of an object, the events around it and the latest decision
    \* ---- the classifier of one controller (SpecView) ----
    vw,             \* the children of two objects, the controller's classifier and its rounds
    \* ---- the finalizer of one object (SpecFinal) ----
    fin,            \* an object, its finalizers, what its finalization tears down, and its rounds
    \* ---- a Stop action of a workflow (SpecStop) ----
    stp,            \* the selected services, their phases, and the progress of the stop
    \* ---- the Telemetry controller ----
    tel,            \* the Telemetry object, its two services and the latest round
    \* ---- the release of an object under deletion ----
    rel,            \* the object, its finalizers, the queued request and the failures so far
    \* ---- the webhook server ----
    web             \* the server, the context, the two goroutines and the channel between them

schedVars == <<plan, view, executed, now, last, prev>>
lifeSpec == <<kind, services, until, tolerate>>
lifeVars ==
    <<kind, services, until, tolerate, status, scheduledJobs, lastScheduleTime, children, round,
      suspend>>
restVars == <<scn, val, cron, sch, vw, fin, stp, tel, rel, web>>
vars == <<schedVars, lifeVars, red, restVars>>

\* ------------------------------------------------------------------ bounds
NumActions == 2     \* length of the action list
MaxAfter == 1       \* depends.after ranges over 0..MaxAfter
MaxTime == 2        \* the clock runs from Timebase to Timebase + MaxTime
Timebase == 1       \* scenario creation time (timebase); above the zero time
MaxServices == 2    \* len(spec.services) ranges over 0..MaxServices
MaxTolerate == 1    \* spec.tolerate.failedJobs ranges over 0..MaxTolerate
MaxTotal == 3       \* totalJobs ranges over 0..MaxTotal when the reducer is applied on its own
MaxRounds == 8      \* the rounds of the chain Scenario are counted up to MaxRounds
MaxEmbed == 2       \* an action of a one-action plan carries at most MaxEmbed embedded specs
MaxVisits == 2      \* a submitted plan is visited by MaxVisits reconciliation rounds
TicksPerMinute == 12    \* the ticks of a minute: a tick is five seconds
DeadlineTicks == 2      \* startingDeadlineSeconds, in ticks: ten seconds
MaxLag == 2         \* the clock moves by 0..MaxLag ticks between two readings of a round
MaxSleeps == 2      \* the controller is away at most MaxSleeps times
MaxCronRounds == 2  \* an object with a schedule is reconciled at most MaxCronRounds times
MaxScheduleCalls == 2   \* Schedule is called at most MaxScheduleCalls times for an object
MaxWorkers == 2     \* a controller runs at most MaxWorkers rounds at a time
MaxFinalRounds == 5 \* an object with a finalizer is reconciled at most MaxFinalRounds times
MaxChildren == 2    \* the rounds of an object with a finalizer create at most MaxChildren children
MaxTelemetryRounds == 4 \* a Telemetry object is reconciled at most MaxTelemetryRounds times
MaxFaults == 2      \* Finalize fails at most MaxFaults times, and so do the calls of the object store
MaxAlerts == 2      \* the webhook receives at most MaxAlerts alerts

\* The number of missed starts getNextScheduleTime lists before it gives up.
MaxStarts == 100

\* ---------------------------------------------------------------- phases
PhaseUninitialized == "Uninitialized"
PhasePending == "Pending"
PhaseRunning == "Running"
PhaseSuccess == "Success"
PhaseFailed == "Failed"

\* The zero value of time.Time, `var nextCycle time.Time`.
ZeroTime == 0

\* The variables of the grouped-job parents, at rest in the other specifications.
LifeIdle ==
    /\ kind = "Stop" /\ services = 0 /\ until = "none" /\ tolerate = 0
    /\ status = [Phase |-> PhaseUninitialized, Reason |-> "", Conds |-> {}]
    /\ scheduledJobs = 0
    /\ lastScheduleTime = ZeroTime
    /\ children = <<>>
    /\ round = <<>>
    /\ suspend = FALSE

\* The variables of the logical scheduler, at rest in the other specifications.
SchedIdle ==
    /\ plan = <<>> /\ view = <<>> /\ executed = {}
    /\ now = 0 /\ last = <<>> /\ prev = <<>>

\* The variable of the reducer, at rest in the other specifications.
NoRed == <<>>

\* The variables of the chain, of the validator and of the time scheduler, at
\* rest in the other specifications.
ScnIdle == scn = <<>>
ValIdle == val = <<>>
CronIdle == cron = <<>>
SchIdle == sch = <<>>
ViewIdle == vw = <<>>
FinIdle == fin = <<>>
StopIdle == stp = <<>>
TelemetryIdle == tel = <<>>
ReleaseIdle == rel = <<>>
WebhookIdle == web = <<>>
RestIdle == ScnIdle /\ ValIdle /\ CronIdle /\ SchIdle /\ ViewIdle /\ FinIdle /\ StopIdle /\ TelemetryIdle /\ ReleaseIdle /\ WebhookIdle

\* ------------------------------------------------------- logical scheduler
ActionNames == 1..NumActions

\* A child that is not listed has no phase in the view.
NoChild == "None"
ChildPhases == {NoChild, PhasePending, PhaseRunning, PhaseSuccess, PhaseFailed}

\* action.DependsOn: a *WaitSpec. present = FALSE is the nil pointer; hasAfter =
\* FALSE is a nil deps.After.
NilDeps == [present |-> FALSE, Success |-> {}, Running |-> {}, hasAfter |-> FALSE, After |-> 0]

\* The other action names, at most one of them: the entries of depends.success
\* and of depends.running.
DepNames(n) == {x \in SUBSET (ActionNames \ {n}) : Cardinality(x) <= 1}

AfterValues == {[hasAfter |-> FALSE, After |-> 0]} \cup
               {[hasAfter |-> TRUE, After |-> a] : a \in 0..MaxAfter}

DepsOf(n) ==
    {NilDeps} \cup
    { [present |-> TRUE, Success |-> s, Running |-> r,
       hasAfter |-> h.hasAfter, After |-> h.After] :
        s \in DepNames(n), r \in DepNames(n), h \in AfterValues }

Plans ==
    { p \in [ActionNames -> UNION {DepsOf(n) : n \in ActionNames}] :
        \A n \in ActionNames : p[n] \in DepsOf(n) }

\* gs.IsSuccessful(dep), gs.IsRunning(dep): probes of the classifier view.
IsSuccessful(gs, dep) == gs[dep] = PhaseSuccess
IsRunning(gs, dep) == gs[dep] = PhaseRunning

\* Mutant of successOK: the success dependencies are not consulted.
successOK_Skipped(deps, gs) == TRUE

successOK(deps, gs) == \A dep \in deps.Success : IsSuccessful(gs, dep)

\* Mutant of runningOK: the running dependencies are not consulted.
runningOK_Skipped(deps, gs) == TRUE

runningOK(deps, gs) == \A dep \in deps.Running : IsRunning(gs, dep)

\* deadline := timebase.Add(dur.Duration)
Deadline(timebase, deps) == timebase + deps.After

\* Mutant of Expired: !deadline.After(cur), ready at the deadline itself.
Expired_Inclusive(deadline, cur) == deadline <= cur

\* deadline.Before(cur.Time): the deadline has expired.
Expired(deadline, cur) == deadline < cur

\* Mutant of timeOK: the latest blocked deadline overwrites nextCycle.
timeOK_Overwrite(timebase, deps, cur, nextCycle) ==
    IF deps.hasAfter
    THEN LET deadline == Deadline(timebase, deps) IN
         IF Expired(deadline, cur)
         THEN [ok |-> TRUE, nextCycle |-> nextCycle]
         ELSE [ok |-> FALSE, nextCycle |-> deadline]
    ELSE [ok |-> TRUE, nextCycle |-> nextCycle]

\* Mutant of timeOK: the wake-up time is the clock reading, not the deadline.
timeOK_Reading(timebase, deps, cur, nextCycle) ==
    IF deps.hasAfter
    THEN LET deadline == Deadline(timebase, deps) IN
         IF Expired(deadline, cur)
         THEN [ok |-> TRUE, nextCycle |-> nextCycle]
         ELSE [ok |-> FALSE,
               nextCycle |-> IF nextCycle = ZeroTime THEN cur + 1
                             ELSE IF cur + 1 < nextCycle THEN cur + 1
                             ELSE nextCycle]
    ELSE [ok |-> TRUE, nextCycle |-> nextCycle]

\* Mutant of timeOK: a blocked action leaves no wake-up time.
timeOK_NoWakeUp(timebase, deps, cur, nextCycle) ==
    IF deps.hasAfter
    THEN [ok |-> Expired(Deadline(timebase, deps), cur), nextCycle |-> nextCycle]
    ELSE [ok |-> TRUE, nextCycle |-> nextCycle]

\* timeOK closes over nextCycle: it returns its verdict and the updated nextCycle.
timeOK(timebase, deps, cur, nextCycle) ==
    IF deps.hasAfter
    THEN LET deadline == Deadline(timebase, deps) IN
         IF Expired(deadline, cur)
         THEN [ok |-> TRUE, nextCycle |-> nextCycle]
         ELSE [ok |-> FALSE,
               nextCycle |-> IF nextCycle = ZeroTime THEN deadline
                             ELSE IF deadline < nextCycle THEN deadline
                             ELSE nextCycle]
    ELSE [ok |-> TRUE, nextCycle |-> nextCycle]

\* Mutant of ScheduleLoop: a ready action is put at the head of the schedule.
RECURSIVE ScheduleLoop_Prepend(_, _, _, _, _, _, _, _)
ScheduleLoop_Prepend(i, timebase, all, gs, exec, clk, schedule, nextCycle) ==
    IF i > Len(all)
    THEN [schedule |-> schedule, nextCycle |-> nextCycle]
    ELSE LET action == all[i]
             deps == action.DependsOn
         IN
         IF action.Name \in exec
         THEN ScheduleLoop_Prepend(i + 1, timebase, all, gs, exec, clk, schedule, nextCycle)
         ELSE IF ~deps.present
         THEN ScheduleLoop_Prepend(i + 1, timebase, all, gs, exec, clk,
                                   <<action.Name>> \o schedule, nextCycle)
         ELSE IF ~successOK(deps, gs) \/ ~runningOK(deps, gs)
         THEN ScheduleLoop_Prepend(i + 1, timebase, all, gs, exec, clk, schedule, nextCycle)
         ELSE LET t == timeOK(timebase, deps, clk[i], nextCycle) IN
              IF ~t.ok
              THEN ScheduleLoop_Prepend(i + 1, timebase, all, gs, exec, clk,
                                        schedule, t.nextCycle)
              ELSE ScheduleLoop_Prepend(i + 1, timebase, all, gs, exec, clk,
                                        <<action.Name>> \o schedule, t.nextCycle)

\* The `for _, action := range all` loop. clk[i] is the reading metav1.Now() gives
\* when the i-th action is examined (timeOK samples the clock on every call).
RECURSIVE ScheduleLoop(_, _, _, _, _, _, _, _)
ScheduleLoop(i, timebase, all, gs, exec, clk, schedule, nextCycle) ==
    IF i > Len(all)
    THEN [schedule |-> schedule, nextCycle |-> nextCycle]
    ELSE LET action == all[i]
             deps == action.DependsOn
         IN
         IF action.Name \in exec
         THEN ScheduleLoop(i + 1, timebase, all, gs, exec, clk, schedule, nextCycle)
         ELSE IF ~deps.present
         THEN ScheduleLoop(i + 1, timebase, all, gs, exec, clk,
                           Append(schedule, action.Name), nextCycle)
         ELSE IF ~successOK(deps, gs) \/ ~runningOK(deps, gs)
         THEN ScheduleLoop(i + 1, timebase, all, gs, exec, clk, schedule, nextCycle)
         ELSE LET t == timeOK(timebase, deps, clk[i], nextCycle) IN
              IF ~t.ok
              THEN ScheduleLoop(i + 1, timebase, all, gs, exec, clk, schedule, t.nextCycle)
              ELSE ScheduleLoop(i + 1, timebase, all, gs, exec, clk,
                                Append(schedule, action.Name), t.nextCycle)

GetNextLogicalJob(timebase, all, gs, exec, clk) ==
    ScheduleLoop(1, timebase, all, gs, exec, clk, <<>>, ZeroTime)

\* The action list as the sequence the scheduler ranges over.
ActionList(p) == [i \in 1..NumActions |-> [Name |-> i, DependsOn |-> p[i]]]

\* The clock readings of one call that starts at `start`, when the clock ticks
\* once after the first k >= 1 actions were examined (k = n: no tick during the call).
Readings(start, n, k) == [i \in 1..n |-> IF i > k THEN start + 1 ELSE start]

NoCall == [valid |-> FALSE, clk |-> <<>>, schedule |-> <<>>, nextCycle |-> ZeroTime]

\* A view the program can be in: only a dispatched action has a child.
ViewStates ==
    { v \in [ActionNames -> ChildPhases] : TRUE }

SchedInit ==
    /\ plan \in Plans
    /\ executed \in SUBSET ActionNames
    /\ view \in {v \in ViewStates : \A n \in ActionNames : n \notin executed => v[n] = NoChild}
    /\ now = Timebase
    /\ last = NoCall
    /\ prev = NoCall
    /\ LifeIdle
    /\ red = NoRed
    /\ RestIdle

\* Time passes between two calls.
Tick ==
    /\ now < Timebase + MaxTime
    /\ now' = now + 1
    /\ UNCHANGED <<plan, view, executed, last, prev>>
    /\ UNCHANGED <<lifeVars, red, restVars>>

\* One call of GetNextLogicalJob on the current inputs.
CallScheduler ==
    \E k \in 1..NumActions :
        /\ (k < NumActions) => now < Timebase + MaxTime
        /\ LET clk == Readings(now, NumActions, k)
               out == GetNextLogicalJob(Timebase, ActionList(plan), view, executed, clk)
           IN /\ last' = [valid |-> TRUE, clk |-> clk,
                          schedule |-> out.schedule, nextCycle |-> out.nextCycle]
              /\ now' = IF k < NumActions THEN now + 1 ELSE now
        /\ prev' = last
        /\ UNCHANGED <<plan, view, executed>>
        /\ UNCHANGED <<lifeVars, red, restVars>>

SchedNext == Tick \/ CallScheduler

SpecSched == SchedInit /\ [][SchedNext]_vars

\* ---------------------------------------------------- scheduler: the claims
InSchedule(c, n) == \E j \in 1..Len(c.schedule) : c.schedule[j] = n

\* The success and running dependencies of action n hold in the current view.
LogicalDepsHold(n) ==
    /\ \A d \in plan[n].Success : view[d] = PhaseSuccess
    /\ \A d \in plan[n].Running : view[d] = PhaseRunning

\* C7: an action is returned if and only if it is not in the executed-set,
\* every depends.success name is successful and every depends.running name is
\* running in the view, and its time predicate (its deadline lies before the
\* clock reading taken for it, or it has no depends.after) holds.
C7_ReadyIff ==
    last.valid =>
        \A n \in ActionNames :
            InSchedule(last, n) <=>
                /\ n \notin executed
                /\ plan[n].present =>
                     /\ LogicalDepsHold(n)
                     /\ plan[n].hasAfter => Timebase + plan[n].After < last.clk[n]

\* C7 witness: an action with a success dependency and a depends.after was
\* returned while an executed action was left out.
C7_Witness ==
    /\ last.valid
    /\ \E n \in ActionNames :
        /\ plan[n].Success # {} /\ plan[n].hasAfter /\ InSchedule(last, n)
        /\ \E m \in executed : ~InSchedule(last, m)

\* An unexecuted action whose only remaining condition is the time predicate.
TimeDecides(n) ==
    /\ n \notin executed
    /\ plan[n].present
    /\ LogicalDepsHold(n)

\* C8 as stated: time-ready exactly when timebase + d <= now.
C8_ReadyAtDeadline ==
    last.valid =>
        \A n \in ActionNames :
            (TimeDecides(n) /\ plan[n].hasAfter) =>
                (InSchedule(last, n) <=> Timebase + plan[n].After <= last.clk[n])

\* C8 amended: an action with depends.after = d is time-ready exactly when
\* timebase + d < now (at now = timebase + d it is still blocked); an action
\* without depends.after is always time-ready.
C8_ReadyAfterDeadline ==
    last.valid =>
        \A n \in ActionNames :
            TimeDecides(n) =>
                (InSchedule(last, n) <=>
                    (plan[n].hasAfter => Timebase + plan[n].After < last.clk[n]))

\* C8 witness: a call made at the very instant of a deadline left the action out.
C8_Witness ==
    /\ last.valid
    /\ \E n \in ActionNames :
        /\ TimeDecides(n) /\ plan[n].hasAfter
        /\ Timebase + plan[n].After = last.clk[n]
        /\ ~InSchedule(last, n)

SetMin(S) == CHOOSE x \in S : \A y \in S : x <= y

\* The deadlines of the unexecuted actions whose deadline has not passed.
PendingDeadlines ==
    { Timebase + plan[n].After : n \in
        { m \in ActionNames : /\ m \notin executed
                              /\ plan[m].present /\ plan[m].hasAfter
                              /\ Timebase + plan[m].After >= last.clk[m] } }

\* The same, only over actions whose success and running dependencies hold.
BlockedOnTimeDeadlines ==
    { Timebase + plan[n].After : n \in
        { m \in ActionNames : /\ TimeDecides(m) /\ plan[m].hasAfter
                              /\ Timebase + plan[m].After >= last.clk[m] } }

\* C9 as stated: the wake-up time is the smallest pending deadline over all
\* unexecuted actions, whatever their success/running dependencies.
C9_WakeUpAllPending ==
    last.valid =>
        IF PendingDeadlines = {} THEN last.nextCycle = ZeroTime
        ELSE last.nextCycle = SetMin(PendingDeadlines)

\* C9 amended: the wake-up time is the smallest timebase + after over the
\* unexecuted actions whose success and running dependencies hold and whose
\* deadline has not passed; it is the zero time iff there is no such action.
C9_WakeUpBlockedOnTime ==
    last.valid =>
        /\ (last.nextCycle = ZeroTime) <=> (BlockedOnTimeDeadlines = {})
        /\ BlockedOnTimeDeadlines # {} =>
             last.nextCycle = SetMin(BlockedOnTimeDeadlines)

\* C9 witness: two blocked actions with different deadlines, the later action
\* of the list holding the larger one, and an action blocked on a dependency
\* whose pending deadline is not counted.
C9_Witness ==
    /\ last.valid
    /\ Cardinality(BlockedOnTimeDeadlines) >= 2
    /\ last.nextCycle = SetMin(BlockedOnTimeDeadlines)
    /\ \E n \in ActionNames :
         /\ n > 1 /\ TimeDecides(n) /\ plan[n].hasAfter
         /\ Timebase + plan[n].After > last.nextCycle

\* C10 as stated: with timebase, action list, view and executed-set fixed
\* (SpecSched never changes them), any two calls return the same result.
C10_SameResult ==
    (last.valid /\ prev.valid) =>
        /\ last.schedule = prev.schedule
        /\ last.nextCycle = prev.nextCycle

\* No after-deadline expires between the clock readings of the two calls.
NoExpiryBetweenCalls ==
    \A n \in ActionNames :
        plan[n].hasAfter =>
            ((Timebase + plan[n].After < prev.clk[n]) <=>
             (Timebase + plan[n].After < last.clk[n]))

\* C10 amended: for fixed timebase, action list, view and executed-set, two
\* calls return the same ready list and wake-up time provided no action's
\* after-deadline expires between the clock readings of the two calls.
C10_SameResultSameExpiry ==
    (last.valid /\ prev.valid /\ NoExpiryBetweenCalls) =>
        /\ last.schedule = prev.schedule
        /\ last.nextCycle = prev.nextCycle

\* C10 witness: two calls at different instants, both after the deadline of a
\* returned action and both before the deadline of a blocked one.
C10_Witness ==
    /\ last.valid /\ prev.valid /\ NoExpiryBetweenCalls
    /\ last.clk[1] > prev.clk[1]
    /\ \E n \in ActionNames :
         TimeDecides(n) /\ plan[n].hasAfter /\ InSchedule(last, n)

\* The position of an action in the declared list (names are positions).
Declared(n) == CHOOSE i \in 1..NumActions : ActionList(plan)[i].Name = n

\* C11: the ready list is a subsequence of the declared action list: its
\* members appear in declaration order and none appears twice.
C11_ReadyInDeclarationOrder ==
    last.valid =>
        \A i, j \in 1..Len(last.schedule) :
            i < j => Declared(last.schedule[i]) < Declared(last.schedule[j])

\* A call has returned more than one ready action.
C11_Witness == last.valid /\ Len(last.schedule) >= 2

\* ---------------------------------------------------- grouped-job parents
\* A Stop or a Call object owns a group of jobs, one per entry of
\* spec.services, created one per reconciliation round.
GroupKinds == {"Stop", "Call"}

\* A Service object owns one pod; a Chaos object stands for one injected fault.
Kinds == GroupKinds \cup {"Service", "Chaos"}

\* cr.Spec.Until: absent, a metrics expression, a state expression over the
\* view (here: "at least one job is running"), or a state expression that
\* does not evaluate.
UntilKinds == {"none", "metrics", "state", "malformed"}

\* Job indices. With an until loop the controller schedules up to index
\* len(services) + 1 before MaxInstancesReached; the model stops at MaxServices.
Instances == 0..MaxServices

\* A child's name: the job index and a disambiguating suffix.
ChildNames == Instances \X (0..1)

NoChildren == [n \in ChildNames |-> NoChild]

\* lifecycle.Classifier: the number of children in each phase.
Count(store, phase) == Cardinality({n \in ChildNames : store[n] = phase})

Classify(store) ==
    [pending |-> Count(store, PhasePending),
     running |-> Count(store, PhaseRunning),
     successful |-> Count(store, PhaseSuccess),
     failed |-> Count(store, PhaseFailed)]

\* meta.SetStatusCondition with Status: True.
SetStatusCondition(conds, type) == conds \cup {type}

HasMetricsExpr(u) == u = "metrics"

HasStateExpr(u) == u \in {"state", "malformed"}

\* expressions.FiredState(until.State, gs): (fired, err).
FiredState(u, gs) == [fired |-> u = "state" /\ gs.running >= 1, err |-> u = "malformed"]

\* expressions.Condition{Expr: until}.IsTrue(view, cr).
IsTrue(u, gs, alert) ==
    \/ HasMetricsExpr(u) /\ alert
    \/ HasStateExpr(u) /\ ~FiredState(u, gs).err /\ FiredState(u, gs).fired

\* The result of a calculateLifecycle: the new status, whether it set
\* cr.Spec.Suspend, whether it panicked, and whether (and with which
\* totalJobs) the decision table was consulted.
Calculated(st, suspends, panic, reduced, total) ==
    [status |-> st, suspend |-> suspends, panic |-> panic, reduced |-> reduced, total |-> total]

\* Step 4 of the Stop controller's calculateLifecycle: the autotests table.
autotests(st, queuedJobs, gs) ==
    IF gs.successful = queuedJobs
    THEN Calculated([Phase |-> PhaseSuccess, Reason |-> "AllJobsCompleted",
                     Conds |-> SetStatusCondition(st.Conds, "AllJobsCompleted")],
                    FALSE, FALSE, TRUE, queuedJobs)
    ELSE IF st.Phase = PhaseRunning /\ gs.failed > 0
    THEN Calculated(st, FALSE, FALSE, TRUE, queuedJobs)
    ELSE IF gs.running + gs.successful = queuedJobs
    THEN Calculated([Phase |-> PhaseRunning, Reason |-> "AllJobsRunning",
                     Conds |-> SetStatusCondition(st.Conds, "AllJobsScheduled")],
                    FALSE, FALSE, TRUE, queuedJobs)
    ELSE IF st.Phase = PhasePending
    THEN Calculated([Phase |-> PhasePending, Reason |-> "JobIsPending", Conds |-> st.Conds],
                    FALSE, FALSE, TRUE, queuedJobs)
    ELSE Calculated(st, FALSE, TRUE, TRUE, queuedJobs)

\* calculateLifecycle of the Stop controller.
stop_calculateLifecycle(st, sched, svc, u, gs, alert) ==
    IF st.Phase \in {PhaseUninitialized, PhaseSuccess, PhaseFailed}
    THEN Calculated(st, FALSE, FALSE, FALSE, 0)
    ELSE IF u # "none"
    THEN IF HasMetricsExpr(u) /\ alert
         THEN Calculated([Phase |-> PhaseRunning, Reason |-> "MetricsEventFired",
                          Conds |-> SetStatusCondition(st.Conds, "AllJobsScheduled")],
                         TRUE, FALSE, FALSE, 0)
         ELSE IF HasStateExpr(u) /\ FiredState(u, gs).err
         THEN Calculated([Phase |-> PhaseFailed, Reason |-> "StateQueryError",
                          Conds |-> SetStatusCondition(st.Conds, "JobFailed")],
                         FALSE, FALSE, FALSE, 0)
         ELSE IF HasStateExpr(u) /\ FiredState(u, gs).fired
         THEN Calculated([Phase |-> PhaseRunning, Reason |-> "StateEventFired",
                          Conds |-> SetStatusCondition(st.Conds, "AllJobsScheduled")],
                         TRUE, FALSE, FALSE, 0)
         ELSE IF svc > 0 /\ sched > svc
         THEN Calculated([Phase |-> PhaseFailed, Reason |-> "MaxInstancesReached",
                          Conds |-> SetStatusCondition(st.Conds, "JobFailed")],
                         FALSE, FALSE, FALSE, 0)
         ELSE Calculated([Phase |-> PhasePending, Reason |-> "SpawnUntilEvent",
                          Conds |-> st.Conds],
                         FALSE, FALSE, FALSE, 0)
    ELSE autotests(st, svc, gs)

\* lifecycle.GroupedJobs(totalJobs, view, &lifecycle, tolerate): the
\* grouped-job reducer, a decision table in which the first match wins.
GroupedJobs(totalJobs, gs, st, tol) ==
    IF st.Phase \in {PhaseSuccess, PhaseFailed}
    THEN st
    ELSE IF gs.failed > tol
    THEN [Phase |-> PhaseFailed, Reason |-> "UnexpectedTermination",
          Conds |-> SetStatusCondition(st.Conds, "JobUnexpectedTermination")]
    ELSE IF gs.successful = totalJobs
    THEN [Phase |-> PhaseSuccess, Reason |-> "AllJobsCompleted",
          Conds |-> SetStatusCondition(st.Conds, "AllJobsAreCompleted")]
    ELSE IF gs.running + gs.successful + gs.failed = totalJobs /\ gs.failed <= tol
    THEN [Phase |-> PhaseRunning, Reason |-> "AllJobsRunning",
          Conds |-> SetStatusCondition(st.Conds, "AllJobsAreScheduled")]
    ELSE IF st.Phase = PhaseRunning /\ gs.failed > 0 /\ gs.failed <= tol
    THEN [Phase |-> PhaseRunning, Reason |-> "Tolerating", Conds |-> st.Conds]
    ELSE [Phase |-> PhasePending, Reason |-> "JobPending", Conds |-> st.Conds]

\* A calculateLifecycle of the Call controller that consults the until
\* condition in every round.
call_calculateLifecycle_AlwaysConsult(st, sched, svc, u, tol, gs, alert) ==
    IF st.Phase \in {PhaseUninitialized, PhaseSuccess, PhaseFailed}
    THEN Calculated(st, FALSE, FALSE, FALSE, 0)
    ELSE IF u # "none"
    THEN IF IsTrue(u, gs, alert)
         THEN Calculated([Phase |-> PhaseRunning, Reason |-> "UntilCondition",
                          Conds |-> SetStatusCondition(st.Conds, "AllJobsAreScheduled")],
                         TRUE, FALSE, FALSE, 0)
         ELSE IF "AllJobsAreScheduled" \in st.Conds
         THEN Calculated(GroupedJobs(sched + 1, gs, st, tol), FALSE, FALSE, TRUE, sched + 1)
         ELSE IF svc > 0 /\ sched > svc
         THEN Calculated([Phase |-> PhaseFailed, Reason |-> "MaxInstancesReached",
                          Conds |-> SetStatusCondition(st.Conds, "JobUnexpectedTermination")],
                         FALSE, FALSE, FALSE, 0)
         ELSE Calculated([Phase |-> PhasePending, Reason |-> "SpawnUntilEvent",
                          Conds |-> st.Conds],
                         FALSE, FALSE, FALSE, 0)
    ELSE Calculated(GroupedJobs(svc, gs, st, tol), FALSE, FALSE, TRUE, svc)

\* calculateLifecycle of the Call controller.
call_calculateLifecycle(st, sched, svc, u, tol, gs, alert) ==
    IF st.Phase \in {PhaseUninitialized, PhaseSuccess, PhaseFailed}
    THEN Calculated(st, FALSE, FALSE, FALSE, 0)
    ELSE IF u # "none"
    THEN IF "AllJobsAreScheduled" \in st.Conds
         THEN Calculated(GroupedJobs(sched + 1, gs, st, tol), FALSE, FALSE, TRUE, sched + 1)
         ELSE IF IsTrue(u, gs, alert)
         THEN Calculated([Phase |-> PhaseRunning, Reason |-> "UntilCondition",
                          Conds |-> SetStatusCondition(st.Conds, "AllJobsAreScheduled")],
                         TRUE, FALSE, FALSE, 0)
         ELSE IF svc > 0 /\ sched > svc
         THEN Calculated([Phase |-> PhaseFailed, Reason |-> "MaxInstancesReached",
                          Conds |-> SetStatusCondition(st.Conds, "JobUnexpectedTermination")],
                         FALSE, FALSE, FALSE, 0)
         ELSE Calculated([Phase |-> PhasePending, Reason |-> "SpawnUntilEvent",
                          Conds |-> st.Conds],
                         FALSE, FALSE, FALSE, 0)
    ELSE Calculated(GroupedJobs(svc, gs, st, tol), FALSE, FALSE, TRUE, svc)

\* A Create that answers a taken name like a free one.
ClientCreate_Upsert(store, name, fault) ==
    IF fault
    THEN [store |-> store, err |-> "Internal"]
    ELSE [store |-> [store EXCEPT ![name] = PhasePending], err |-> "nil"]

\* The object store's Create (r.GetClient().Create): a name that is taken is
\* refused with AlreadyExists, otherwise the child exists and is Pending.
ClientCreate(store, name, fault) ==
    IF fault
    THEN [store |-> store, err |-> "Internal"]
    ELSE IF store[name] # NoChild
    THEN [store |-> store, err |-> "AlreadyExists"]
    ELSE [store |-> [store EXCEPT ![name] = PhasePending], err |-> "nil"]

\* utils.Create(ctx, r, parent, child).
Create(store, name, fault) ==
    LET res == ClientCreate(store, name, fault)
    IN  IF res.err = "AlreadyExists"
        THEN [store |-> res.store, result |-> "panic"]
        ELSE IF res.err # "nil"
        THEN [store |-> res.store, result |-> "error"]
        ELSE [store |-> res.store, result |-> "nil"]

\* The children of one job index that exist.
ChildrenOf(store, i) == {n \in ChildNames : n[1] = i /\ store[n] # NoChild}

\* A naming that draws a fresh suffix for every creation.
ChildName_Fresh(i, store) == <<i, IF ChildrenOf(store, i) = {} THEN 0 ELSE 1>>

\* The name of job i: common.GenerateName(caller, jobIndex), a function of
\* the parent and the index alone.
ChildName(i, store) == <<i, 0>>

\* utils.Delete of every child in one of the given phases.
DeleteJobs(store, phases) ==
    [n \in ChildNames |-> IF store[n] \in phases THEN NoChild ELSE store[n]]

\* What became of a round's creation: whether one was tried, whether the
\* name was taken, and what utils.Create answered.
NoCreate == [tried |-> FALSE, existed |-> FALSE, result |-> "none"]

Attempt(store, name, made) ==
    [tried |-> TRUE, existed |-> store[name] # NoChild, result |-> made.result]

NoRound ==
    [outcome |-> "None", prev |-> PhaseUninitialized, calc |-> PhaseUninitialized,
     reduced |-> FALSE, total |-> 0, gs |-> Classify(NoChildren),
     create |-> NoCreate]

\* What a round leaves behind for inspection: its outcome, the phase it
\* found, the phase calculateLifecycle returned, the decision table's inputs
\* when it was consulted, and what became of the creation.
RoundInfo(outcome, calc, gs, create) ==
    [outcome |-> outcome, prev |-> status.Phase, calc |-> calc.status.Phase,
     reduced |-> calc.reduced /\ ~calc.panic, total |-> calc.total, gs |-> gs,
     create |-> create]

\* lifecycle.Pending, lifecycle.Running, lifecycle.Success, lifecycle.Failed
\* (utils.Pending, utils.Failed): write the phase with a reason.
Pending(st, reason) == [st EXCEPT !.Phase = PhasePending, !.Reason = reason]

Running(st, reason) == [st EXCEPT !.Phase = PhaseRunning, !.Reason = reason]

Success(st, reason) == [st EXCEPT !.Phase = PhaseSuccess, !.Reason = reason]

Failed(st, reason) == [st EXCEPT !.Phase = PhaseFailed, !.Reason = reason]

LifeInit ==
    /\ kind \in Kinds
    /\ services \in (IF kind \in GroupKinds THEN 0..MaxServices ELSE {1})
    /\ until \in (IF kind \in GroupKinds THEN UntilKinds ELSE {"none"})
    /\ tolerate \in (IF kind = "Call" THEN 0..MaxTolerate ELSE {0})
    /\ status = [Phase |-> PhaseUninitialized, Reason |-> "", Conds |-> {}]
    /\ scheduledJobs = 0
    /\ lastScheduleTime = ZeroTime
    /\ children = NoChildren
    /\ round = NoRound
    /\ suspend = FALSE
    /\ SchedIdle
    /\ red = NoRed
    /\ RestIdle

\* calculateLifecycle of the object's controller.
calculateLifecycle(alert) ==
    IF kind = "Stop"
    THEN stop_calculateLifecycle(status, scheduledJobs, services, until,
                                 Classify(children), alert)
    ELSE call_calculateLifecycle(status, scheduledJobs, services, until, tolerate,
                                 Classify(children), alert)

\* Whether the round goes on to a second status write: the one that
\* initializes the object, or the one that journals the creation of the
\* next job.
ReachesCreate(calc) ==
    /\ ~calc.panic
    /\ ~calc.suspend
    /\ ~suspend
    /\ \/ calc.status.Phase = PhaseUninitialized
       \/ /\ calc.status.Phase = PhasePending
          /\ ~(until = "none" /\ scheduledJobs + 1 >= services)
          /\ ~(kind = "Call" /\ scheduledJobs + 1 >= services)

\* A round that cleans the children up before it writes the status.
Round_CleanupBeforeWrite(alert, statusOK, fault, journalOK) ==
    LET gs == Classify(children)
        calc == calculateLifecycle(alert)
        newStatus == calc.status
        nextExpectedJob == scheduledJobs + 1
        name == ChildName(nextExpectedJob, children)
        made == Create(children, name, fault)
    IN  IF calc.panic
        THEN /\ round' = RoundInfo("Panic", calc, gs, NoCreate)
             /\ UNCHANGED <<status, scheduledJobs, lastScheduleTime, children>>
        ELSE IF ~statusOK
        THEN /\ round' = RoundInfo("Requeue", calc, gs, NoCreate)
             /\ children' = (IF newStatus.Phase = PhaseSuccess
                             THEN DeleteJobs(children, {PhaseSuccess})
                             ELSE IF newStatus.Phase = PhaseFailed
                             THEN DeleteJobs(children, {PhaseSuccess, PhasePending, PhaseRunning})
                             ELSE children)
             /\ UNCHANGED <<status, scheduledJobs, lastScheduleTime>>
        ELSE IF calc.suspend \/ suspend
        THEN /\ status' = newStatus
             /\ round' = RoundInfo("Suspended", calc, gs, NoCreate)
             /\ UNCHANGED <<scheduledJobs, lastScheduleTime, children>>
        ELSE IF newStatus.Phase = PhaseSuccess
        THEN /\ status' = newStatus
             /\ children' = DeleteJobs(children, {PhaseSuccess})
             /\ round' = RoundInfo("Success", calc, gs, NoCreate)
             /\ UNCHANGED <<scheduledJobs, lastScheduleTime>>
        ELSE IF newStatus.Phase = PhaseFailed
        THEN /\ status' = newStatus
             /\ children' = DeleteJobs(children, {PhaseSuccess, PhasePending, PhaseRunning})
             /\ round' = RoundInfo("Failed", calc, gs, NoCreate)
             /\ UNCHANGED <<scheduledJobs, lastScheduleTime>>
        ELSE IF newStatus.Phase = PhaseUninitialized
        THEN /\ scheduledJobs' = -1
             /\ IF journalOK
                THEN /\ status' = Pending(newStatus, "submitting job requests")
                     /\ round' = RoundInfo("Initialized", calc, gs, NoCreate)
                ELSE /\ status' = Failed(newStatus, "status update")
                     /\ round' = RoundInfo("InitFailed", calc, gs, NoCreate)
             /\ UNCHANGED <<lastScheduleTime, children>>
        ELSE IF \/ newStatus.Phase = PhaseRunning
                \/ until = "none" /\ nextExpectedJob >= services
        THEN /\ status' = newStatus
             /\ round' = RoundInfo("Waiting", calc, gs, NoCreate)
             /\ UNCHANGED <<scheduledJobs, lastScheduleTime, children>>
        ELSE IF kind = "Call" /\ nextExpectedJob >= services
        THEN /\ status' = newStatus
             /\ round' = RoundInfo("IndexPanic", calc, gs, NoCreate)
             /\ UNCHANGED <<scheduledJobs, lastScheduleTime, children>>
        ELSE /\ nextExpectedJob \in Instances
             /\ children' = made.store
             /\ IF made.result = "panic"
                THEN /\ status' = newStatus
                     /\ round' = RoundInfo("CreatePanic", calc, gs, Attempt(children, name, made))
                     /\ UNCHANGED <<scheduledJobs, lastScheduleTime>>
                ELSE IF made.result = "error"
                THEN /\ status' = Failed(newStatus, "cannot create job")
                     /\ round' = RoundInfo("CreateFailed", calc, gs, Attempt(children, name, made))
                     /\ UNCHANGED <<scheduledJobs, lastScheduleTime>>
                ELSE IF journalOK
                THEN /\ scheduledJobs' = nextExpectedJob
                     /\ lastScheduleTime' = 1
                     /\ status' = Pending(newStatus, "some jobs are still pending")
                     /\ round' = RoundInfo("Created", calc, gs, Attempt(children, name, made))
                ELSE /\ status' = newStatus
                     /\ round' = RoundInfo("Unjournaled", calc, gs, Attempt(children, name, made))
                     /\ UNCHANGED <<scheduledJobs, lastScheduleTime>>

\* One reconciliation round of a Stop or Call object: the Reconcile of the
\* controllers of grouped jobs, from the status update (step 4) on, with the
\* object's own calculateLifecycle and without a cron schedule. The inputs
\* are what the environment answers: whether the metrics alert is firing,
\* whether the status write after calculateLifecycle succeeds, whether the
\* store fails the creation, and whether the second status write (the one
\* that initializes, or the one that journals the creation) succeeds.
\* cr.Spec.Suspend, whether the object came with it or calculateLifecycle
\* set it in memory, ends the round after the status write and before the
\* cleanup; the status write does not persist it.
Round(alert, statusOK, fault, journalOK) ==
    LET gs == Classify(children)
        calc == calculateLifecycle(alert)
        newStatus == calc.status
        nextExpectedJob == scheduledJobs + 1
        name == ChildName(nextExpectedJob, children)
        made == Create(children, name, fault)
    IN  IF calc.panic
        THEN /\ round' = RoundInfo("Panic", calc, gs, NoCreate)
             /\ UNCHANGED <<status, scheduledJobs, lastScheduleTime, children>>
        ELSE IF ~statusOK
        THEN /\ round' = RoundInfo("Requeue", calc, gs, NoCreate)
             /\ UNCHANGED <<status, scheduledJobs, lastScheduleTime, children>>
        ELSE IF calc.suspend \/ suspend
        THEN /\ status' = newStatus
             /\ round' = RoundInfo("Suspended", calc, gs, NoCreate)
             /\ UNCHANGED <<scheduledJobs, lastScheduleTime, children>>
        ELSE IF newStatus.Phase = PhaseSuccess
        THEN /\ status' = newStatus
             /\ children' = DeleteJobs(children, {PhaseSuccess})
             /\ round' = RoundInfo("Success", calc, gs, NoCreate)
             /\ UNCHANGED <<scheduledJobs, lastScheduleTime>>
        ELSE IF newStatus.Phase = PhaseFailed
        THEN /\ status' = newStatus
             /\ children' = DeleteJobs(children, {PhaseSuccess, PhasePending, PhaseRunning})
             /\ round' = RoundInfo("Failed", calc, gs, NoCreate)
             /\ UNCHANGED <<scheduledJobs, lastScheduleTime>>
        ELSE IF newStatus.Phase = PhaseUninitialized
        THEN /\ scheduledJobs' = -1
             /\ IF journalOK
                THEN /\ status' = Pending(newStatus, "submitting job requests")
                     /\ round' = RoundInfo("Initialized", calc, gs, NoCreate)
                ELSE /\ status' = Failed(newStatus, "status update")
                     /\ round' = RoundInfo("InitFailed", calc, gs, NoCreate)
             /\ UNCHANGED <<lastScheduleTime, children>>
        ELSE IF \/ newStatus.Phase = PhaseRunning
                \/ until = "none" /\ nextExpectedJob >= services
        THEN /\ status' = newStatus
             /\ round' = RoundInfo("Waiting", calc, gs, NoCreate)
             /\ UNCHANGED <<scheduledJobs, lastScheduleTime, children>>
        ELSE IF kind = "Call" /\ nextExpectedJob >= services
        THEN /\ status' = newStatus
             /\ round' = RoundInfo("IndexPanic", calc, gs, NoCreate)
             /\ UNCHANGED <<scheduledJobs, lastScheduleTime, children>>
        ELSE /\ nextExpectedJob \in Instances
             /\ children' = made.store
             /\ IF made.result = "panic"
                THEN /\ status' = newStatus
                     /\ round' = RoundInfo("CreatePanic", calc, gs, Attempt(children, name, made))
                     /\ UNCHANGED <<scheduledJobs, lastScheduleTime>>
                ELSE IF made.result = "error"
                THEN /\ status' = Failed(newStatus, "cannot create job")
                     /\ round' = RoundInfo("CreateFailed", calc, gs, Attempt(children, name, made))
                     /\ UNCHANGED <<scheduledJobs, lastScheduleTime>>
                ELSE IF journalOK
                THEN /\ scheduledJobs' = nextExpectedJob
                     /\ lastScheduleTime' = 1
                     /\ status' = Pending(newStatus, "some jobs are still pending")
                     /\ round' = RoundInfo("Created", calc, gs, Attempt(children, name, made))
                ELSE /\ status' = newStatus
                     /\ round' = RoundInfo("Unjournaled", calc, gs, Attempt(children, name, made))
                     /\ UNCHANGED <<scheduledJobs, lastScheduleTime>>

\* Step 2 of the round when the store fails to list the children: the object
\* is moved to Failed and the round ends before the view is populated.
ListFailed ==
    /\ status' = Failed(status, "unable to list child services")
    /\ round' = RoundInfo("ListFailed", Calculated(status, FALSE, FALSE, FALSE, 0),
                          Classify(children), NoCreate)
    /\ UNCHANGED <<scheduledJobs, lastScheduleTime, children>>

\* listErr: the store fails the List of the object's children. updateOK: the
\* store accepts the update that persists Suspend after the cleanup of a
\* failed object.
Reconcile ==
    /\ kind \in GroupKinds
    /\ \E listErr \in BOOLEAN,
          alert \in (IF HasMetricsExpr(until) THEN BOOLEAN ELSE {FALSE}),
          statusOK \in BOOLEAN :
        LET creates == ~listErr /\ statusOK /\ ReachesCreate(calculateLifecycle(alert))
        IN  \E fault \in (IF creates THEN BOOLEAN ELSE {FALSE}),
               journalOK \in (IF creates THEN BOOLEAN ELSE {TRUE}) :
                IF listErr
                THEN alert = FALSE /\ statusOK /\ ListFailed
                ELSE Round(alert, statusOK, fault, journalOK)
    /\ \E updateOK \in (IF round'.outcome = "Failed" THEN BOOLEAN ELSE {TRUE}) :
        suspend' = (suspend \/ (round'.outcome = "Failed" /\ updateOK))
    /\ UNCHANGED <<lifeSpec, schedVars, red, restVars>>

\* calculateLifecycle(&cr, &pod) of the Service controller: a settled or
\* uninitialized service keeps its lifecycle, otherwise the service follows
\* its pod.
service_calculateLifecycle(st, pod) ==
    IF st.Phase \in {PhaseUninitialized, PhaseSuccess, PhaseFailed} \/ pod = NoChild
    THEN st
    ELSE IF pod = PhaseRunning THEN Running(st, "PodRunning")
    ELSE IF pod = PhaseSuccess THEN Success(st, "PodSucceeded")
    ELSE IF pod = PhaseFailed THEN Failed(st, "PodFailed")
    ELSE Pending(st, "PodPending")

\* One reconciliation round of a Service object. getErr: the store fails the
\* read of the pod with an error other than NotFound.
service_Round(getErr, statusOK, fault, journalOK) ==
    LET gs == Classify(children)
        name == ChildName(0, children)
        newStatus == service_calculateLifecycle(status, children[name])
        calc == Calculated(newStatus, FALSE, FALSE, FALSE, 0)
        made == Create(children, name, fault)
    IN  IF getErr
        THEN /\ status' = Failed(status, "retrieve pod")
             /\ round' = RoundInfo("GetFailed", Calculated(status, FALSE, FALSE, FALSE, 0),
                                   gs, NoCreate)
             /\ UNCHANGED <<scheduledJobs, lastScheduleTime, children>>
        ELSE IF ~statusOK
        THEN /\ round' = RoundInfo("Requeue", calc, gs, NoCreate)
             /\ UNCHANGED <<status, scheduledJobs, lastScheduleTime, children>>
        ELSE IF newStatus.Phase = PhaseSuccess
        THEN /\ status' = newStatus
             /\ round' = RoundInfo("Success", calc, gs, NoCreate)
             /\ UNCHANGED <<scheduledJobs, lastScheduleTime, children>>
        ELSE IF newStatus.Phase = PhaseFailed
        THEN /\ status' = newStatus
             /\ round' = RoundInfo("Failed", calc, gs, NoCreate)
             /\ UNCHANGED <<scheduledJobs, lastScheduleTime, children>>
        ELSE IF lastScheduleTime # ZeroTime
        THEN /\ status' = newStatus
             /\ round' = RoundInfo("Waiting", calc, gs, NoCreate)
             /\ UNCHANGED <<scheduledJobs, lastScheduleTime, children>>
        ELSE /\ children' = made.store
             /\ UNCHANGED scheduledJobs
             /\ IF made.result = "panic"
                THEN /\ status' = newStatus
                     /\ round' = RoundInfo("CreatePanic", calc, gs, Attempt(children, name, made))
                     /\ UNCHANGED lastScheduleTime
                ELSE IF made.result = "error"
                THEN /\ status' = Failed(newStatus, "cannot create pod")
                     /\ round' = RoundInfo("CreateFailed", calc, gs, Attempt(children, name, made))
                     /\ UNCHANGED lastScheduleTime
                ELSE IF journalOK
                THEN /\ lastScheduleTime' = 1
                     /\ status' = Pending(newStatus, "create pod")
                     /\ round' = RoundInfo("Created", calc, gs, Attempt(children, name, made))
                ELSE /\ status' = newStatus
                     /\ round' = RoundInfo("Unjournaled", calc, gs, Attempt(children, name, made))
                     /\ UNCHANGED lastScheduleTime

service_Reconcile ==
    /\ kind = "Service"
    /\ \E getErr \in BOOLEAN, statusOK \in BOOLEAN, fault \in BOOLEAN, journalOK \in BOOLEAN :
        service_Round(getErr, statusOK, fault, journalOK)
    /\ UNCHANGED <<lifeSpec, suspend, schedVars, red, restVars>>

\* One reconciliation round of a Chaos object: the switch on the phase.
\* herr: the handler's call of this round (Inject, WaitForDuration or
\* Revoke) returns an error. An injection that succeeds leaves the object
\* Running (the handler's Inject ends in lifecycle.Running). The fault
\* itself is an object of Chaos-Mesh and is not kept in the store of jobs.
chaos_Round(herr) ==
    LET gs == Classify(children)
        calc == Calculated(status, FALSE, FALSE, FALSE, 0)
    IN  /\ UNCHANGED <<scheduledJobs, lastScheduleTime, children>>
        /\ IF status.Phase = PhaseUninitialized
           THEN /\ status' = Pending(status, "received chaos request")
                /\ round' = RoundInfo("Initialized", calc, gs, NoCreate)
           ELSE IF status.Phase = PhasePending
           THEN IF herr
                THEN /\ status' = Failed(status, "injection failed")
                     /\ round' = RoundInfo("InjectFailed", calc, gs, NoCreate)
                ELSE /\ status' = Running(status, "chaos is up and running")
                     /\ round' = RoundInfo("Injected", calc, gs, NoCreate)
           ELSE IF status.Phase = PhaseRunning
           THEN IF herr
                THEN /\ status' = Failed(status, "chaos failed")
                     /\ round' = RoundInfo("WaitFailed", calc, gs, NoCreate)
                ELSE /\ status' = Success(status, "chaos revoked")
                     /\ round' = RoundInfo("Expired", calc, gs, NoCreate)
           ELSE IF status.Phase = PhaseSuccess
           THEN IF herr
                THEN /\ status' = Failed(status, "unable to revoke chaos")
                     /\ round' = RoundInfo("RevokeFailed", calc, gs, NoCreate)
                ELSE /\ status' = status
                     /\ round' = RoundInfo("Revoked", calc, gs, NoCreate)
           ELSE /\ status' = status
                /\ round' = RoundInfo("Stop", calc, gs, NoCreate)

chaos_Reconcile ==
    /\ kind = "Chaos"
    /\ \E herr \in BOOLEAN : chaos_Round(herr)
    /\ UNCHANGED <<lifeSpec, suspend, schedVars, red, restVars>>

\* A child makes progress on its own: Pending to Running or Failed, Running
\* to Success or Failed.
ChildStep ==
    \E n \in ChildNames, to \in {PhaseRunning, PhaseSuccess, PhaseFailed} :
        /\ \/ children[n] = PhasePending /\ to \in {PhaseRunning, PhaseFailed}
           \/ children[n] = PhaseRunning /\ to \in {PhaseSuccess, PhaseFailed}
        /\ children' = [children EXCEPT ![n] = to]
        /\ UNCHANGED <<status, scheduledJobs, lastScheduleTime, round>>
        /\ UNCHANGED <<lifeSpec, suspend, schedVars, red, restVars>>

\* The user sets spec.suspend on a Stop or a Call object.
UserSuspend ==
    /\ kind \in GroupKinds
    /\ ~suspend
    /\ suspend' = TRUE
    /\ UNCHANGED <<status, scheduledJobs, lastScheduleTime, children, round>>
    /\ UNCHANGED <<lifeSpec, schedVars, red, restVars>>

LifeNext == Reconcile \/ service_Reconcile \/ chaos_Reconcile \/ ChildStep \/ UserSuspend

SpecLife == LifeInit /\ [][LifeNext]_vars

\* ------------------------------------------- the reducer on its own
\* The views a parent expecting totalJobs children can see: the children
\* counted per phase, never more than it has created.
Views(totalJobs) ==
    {gs \in [pending : 0..totalJobs, running : 0..totalJobs,
             successful : 0..totalJobs, failed : 0..totalJobs] :
        gs.pending + gs.running + gs.successful + gs.failed <= totalJobs}

\* The inputs of one application: calculateLifecycle consults the reducer
\* only for a parent that is Pending or Running.
Applications ==
    {a \in [total : 0..MaxTotal, gs : Views(MaxTotal),
            prev : {PhasePending, PhaseRunning}, tol : 0..MaxTolerate] :
        a.gs \in Views(a.total)}

ReduceInit ==
    /\ \E a \in Applications :
        red = [applied |-> FALSE, total |-> a.total, gs |-> a.gs, prev |-> a.prev,
               tol |-> a.tol, phase |-> a.prev, reason |-> ""]
    /\ SchedIdle
    /\ LifeIdle
    /\ RestIdle

\* The Call controller's calculateLifecycle on a Call without until, all of
\* whose jobs are scheduled.
ApplyGroupedJobs ==
    /\ ~red.applied
    /\ LET st == [Phase |-> red.prev, Reason |-> red.reason, Conds |-> {}]
           calc == call_calculateLifecycle(st, red.total - 1, red.total, "none",
                                           red.tol, red.gs, FALSE)
       IN  red' = [red EXCEPT !.applied = TRUE, !.phase = calc.status.Phase,
                              !.reason = calc.status.Reason]
    /\ UNCHANGED <<schedVars, lifeVars, restVars>>

ReduceNext == ApplyGroupedJobs

SpecReduce == ReduceInit /\ [][ReduceNext]_vars

\* ------------------------------------------------- lifecycles: the claims
Terminal == {PhaseSuccess, PhaseFailed}

PhaseRank(p) ==
    IF p = PhaseUninitialized THEN 0
    ELSE IF p = PhasePending THEN 1
    ELSE IF p = PhaseRunning THEN 2
    ELSE 3

\* C1: a reconciliation round of a Stop or Call object never moves the phase
\* backwards in Uninitialized < Pending < Running < {Success, Failed}, and
\* never moves it out of Success or Failed.
C1_MonotonePhases ==
    (kind \in GroupKinds /\ round.outcome # "None") =>
        /\ PhaseRank(status.Phase) >= PhaseRank(round.prev)
        /\ round.prev \in Terminal => status.Phase = round.prev

\* C2: a reconciliation round of a Chaos or Service object that is already
\* Success or Failed leaves the phase as it is and creates no child.
C2_TerminalIdempotent ==
    (kind \in {"Chaos", "Service"} /\ round.outcome # "None" /\ round.prev \in Terminal) =>
        /\ status.Phase = round.prev
        /\ ~round.create.tried

C4_CreateExistingSucceeds ==
    (round.outcome # "None" /\ round.create.tried /\ round.create.existed) =>
        round.create.result = "nil"

\* The decision table as C5 states it: the phase of the first matching row.
FirstMatchingRow(total, gs, prevPhase, tol) ==
    IF gs.failed > tol THEN PhaseFailed
    ELSE IF gs.successful = total THEN PhaseSuccess
    ELSE IF gs.running + gs.successful + gs.failed = total THEN PhaseRunning
    ELSE IF prevPhase = PhaseRunning /\ gs.failed > 0 THEN PhaseRunning
    ELSE PhasePending

\* C5: for every totalJobs, view, previous phase and tolerate, the decision
\* table of a Stop or Call object returns the phase of the first matching
\* row of: failed > tolerate, Failed; successful = totalJobs, Success;
\* running + successful + failed = totalJobs with failed <= tolerate,
\* Running; previously Running with 0 < failed <= tolerate, Running;
\* otherwise Pending.
C5_FirstMatchingRow ==
    (kind \in GroupKinds /\ round.outcome # "None" /\ round.reduced) =>
        round.calc = FirstMatchingRow(round.total, round.gs, round.prev, tolerate)

\* C6: with three expected jobs and tolerate 1, when one job has failed and
\* two have succeeded, the reducer yields Success.
C6_ToleratedFailuresSucceed ==
    (/\ red.applied
     /\ red.total = 3 /\ red.tol = 1
     /\ red.gs.failed = 1 /\ red.gs.successful = 2) =>
        red.phase = PhaseSuccess

\* ------------------------------------------------------- the linear chain
\* A Scenario whose plan is the chain A, B after A is Running, C after B has
\* succeeded. The rounds of the Scenario controller follow the specification
\* document, section 4.8: view, reducer, terminal policies, schedule.
ChainNames == {"A", "B", "C"}

ChainPlan ==
    << [Name |-> "A", DependsOn |-> NilDeps],
       [Name |-> "B", DependsOn |-> [present |-> TRUE, Success |-> {}, Running |-> {"A"},
                                     hasAfter |-> FALSE, After |-> 0]],
       [Name |-> "C", DependsOn |-> [present |-> TRUE, Success |-> {"B"}, Running |-> {},
                                     hasAfter |-> FALSE, After |-> 0]] >>

\* Step 3, populate view: the classifier's counters over the children of the plan.
ChainClassify(kids) ==
    [pending |-> Cardinality({n \in ChainNames : kids[n] = PhasePending}),
     running |-> Cardinality({n \in ChainNames : kids[n] = PhaseRunning}),
     successful |-> Cardinality({n \in ChainNames : kids[n] = PhaseSuccess}),
     failed |-> Cardinality({n \in ChainNames : kids[n] = PhaseFailed})]

NoView == [n \in ChainNames |-> NoChild]

\* The names of a list of actions, as a set.
NamesOf(schedule) == {schedule[i] : i \in 1..Len(schedule)}

ChainInit ==
    /\ scn = [status |-> [Phase |-> PhaseUninitialized, Reason |-> "", Conds |-> {}],
              executed |-> {},
              kids |-> NoView,
              order |-> <<>>,
              seen |-> [n \in ChainNames |-> NoView],
              rounds |-> 0]
    /\ SchedIdle /\ LifeIdle /\ red = NoRed /\ ValIdle /\ CronIdle /\ SchIdle /\ ViewIdle /\ FinIdle /\ StopIdle /\ TelemetryIdle /\ ReleaseIdle /\ WebhookIdle

\* Step 6, terminal policies: on Success the successful children are deleted,
\* on Failed the pending and the running ones.
EnforceTerminal(kids, phase) ==
    [n \in ChainNames |->
        IF phase = PhaseSuccess /\ kids[n] = PhaseSuccess THEN NoChild
        ELSE IF phase = PhaseFailed /\ kids[n] \in {PhasePending, PhaseRunning} THEN NoChild
        ELSE kids[n]]

\* One reconciliation round of the Scenario. order and seen are the log of the
\* dispatches: the order of creation, and the view of the round that created
\* each child. rounds counts the rounds up to MaxRounds.
ScenarioRound ==
    LET gsView == scn.kids
        st == GroupedJobs(Len(ChainPlan), ChainClassify(gsView), scn.status, 0)
        clk == [i \in 1..Len(ChainPlan) |-> Timebase]
        ready == IF st.Phase \in {PhaseSuccess, PhaseFailed}
                 THEN <<>>
                 ELSE GetNextLogicalJob(Timebase, ChainPlan, gsView, scn.executed, clk).schedule
    IN  /\ scn' = [status |-> st,
                   executed |-> scn.executed \cup NamesOf(ready),
                   kids |-> [n \in ChainNames |->
                                IF n \in NamesOf(ready) /\ scn.kids[n] = NoChild
                                THEN PhasePending
                                ELSE EnforceTerminal(scn.kids, st.Phase)[n]],
                   order |-> scn.order \o ready,
                   seen |-> [n \in ChainNames |->
                                IF n \in NamesOf(ready) THEN gsView ELSE scn.seen[n]],
                   rounds |-> IF scn.rounds < MaxRounds THEN scn.rounds + 1 ELSE scn.rounds]
        /\ UNCHANGED <<schedVars, lifeVars, red, val, cron, sch, vw, fin, stp, tel, rel, web>>

\* A child of the Scenario moves on: created children start, started children
\* succeed, at any time relative to the rounds.
ChildAdvance(n) ==
    /\ scn.kids[n] \in {PhasePending, PhaseRunning}
    /\ scn' = [scn EXCEPT !.kids[n] = IF scn.kids[n] = PhasePending
                                      THEN PhaseRunning ELSE PhaseSuccess]
    /\ UNCHANGED <<schedVars, lifeVars, red, val, cron, sch, vw, fin, stp, tel, rel, web>>

ChildrenAdvance == \E n \in ChainNames : ChildAdvance(n)

ChainNext == ScenarioRound \/ ChildrenAdvance

\* Fair reconciliation: a round that would change something is eventually run,
\* and every child that can move on eventually does.
ChainFairness ==
    /\ WF_vars(ScenarioRound)
    /\ \A n \in ChainNames : WF_vars(ChildAdvance(n))

SpecChain == ChainInit /\ [][ChainNext]_vars /\ ChainFairness

ChainDone == scn.executed = ChainNames /\ scn.status.Phase = PhaseSuccess

\* C12 as stated: A first, B only on a view with A Running, C only on a view
\* with B Success, and every action is eventually dispatched and the Scenario
\* eventually reaches Success whatever the timing of the children.
C12_ChainAlwaysCompletes ==
    /\ [](scn.order # <<>> => scn.order[1] = "A")
    /\ []("B" \in scn.executed => scn.seen["B"]["A"] = PhaseRunning)
    /\ []("C" \in scn.executed => scn.seen["C"]["B"] = PhaseSuccess)
    /\ <>ChainDone

\* C12, amended: the three ordering facts hold; A is eventually dispatched; once
\* B has been dispatched the chain completes with the Scenario in Success; and
\* if A has left Running before any round dispatched B, B is never dispatched.
C12_ChainCompletesOnceBDispatched ==
    /\ [](scn.order # <<>> => scn.order[1] = "A")
    /\ []("B" \in scn.executed => scn.seen["B"]["A"] = PhaseRunning)
    /\ []("C" \in scn.executed => scn.seen["C"]["B"] = PhaseSuccess)
    /\ <>("A" \in scn.executed)
    /\ ("B" \in scn.executed) ~> ChainDone
    /\ []((scn.kids["A"] = PhaseSuccess /\ "B" \notin scn.executed)
            => []("B" \notin scn.executed))

\* All three actions have been dispatched and the Scenario is in Success.
C12_Witness == ChainDone /\ Len(scn.order) = 3

\* ------------------------------------------------- validation of a plan
\* An action of a plan: Name, ActionType, the embedded specs that are set
\* (HasEmbed = FALSE is a nil EmbedActions), DependsOn, AssertExpr and, for the
\* Delete spec, Jobs.
SwitchTypes == {"Service", "Cluster", "Chaos", "Cascade", "Delete", "Call"}
ActionTypes == SwitchTypes \cup {"VirtualObject", "Wait"}
EmbedKinds == SwitchTypes \cup {"VirtualObject"}

\* validation.IsQualifiedName(name): a name with a blank in it does not qualify.
IsQualifiedName(name) == name \notin {"d 1"}

\* An assertion: none, a state expression, a state expression that does not
\* parse, a metrics expression that does not parse.
AssertKinds == {"none", "state", "malformed", "badmetrics"}
assert_IsZero(a) == a = "none"
assert_HasMetricsExpr(a) == a = "badmetrics" \/ HasMetricsExpr(a)
\* grafana.ParseAlertExpr(assert.Metrics): whether it returns an error.
ParseAlertExpr(a) == a = "badmetrics"
EmptyView == [pending |-> 0, running |-> 0, successful |-> 0, failed |-> 0]

\* errors.Errorf: the kind of the error and the action names its message holds.
Errorf(what, names) == [kind |-> what, names |-> names]
NoError == Errorf("nil", {})
\* errors.Wrapf(err, "... for action [%s]", actionName)
Wrapf(err, actionName) == [err EXCEPT !.names = @ \cup {actionName}]
\* A nil pointer dereference inside the validator.
Panicked == Errorf("panic", {})

isSupported(act) ==
    /\ act.HasEmbed
    /\ act.ActionType \in SwitchTypes
    /\ act.ActionType \in act.Embed

EmptyIndex == [n \in {} |-> 0]

\* The loop of PrepareDependencyGraph. callIndex maps a name to the position
\* of its action in actionList.
RECURSIVE PrepareLoop(_, _, _)
PrepareLoop(i, actionList, callIndex) ==
    IF i > Len(actionList)
    THEN [err |-> NoError, index |-> callIndex]
    ELSE LET action == actionList[i] IN
         IF ~isSupported(action)
         THEN [err |-> Errorf("incorrect spec", {action.Name}), index |-> EmptyIndex]
         ELSE IF ~IsQualifiedName(action.Name)
         THEN [err |-> Errorf("invalid name", {action.Name}), index |-> EmptyIndex]
         ELSE IF action.Name \in DOMAIN callIndex
         THEN [err |-> Errorf("duplicate", {action.Name}), index |-> EmptyIndex]
         ELSE PrepareLoop(i + 1, actionList,
                  [n \in DOMAIN callIndex \cup {action.Name} |->
                      IF n = action.Name THEN i ELSE callIndex[n]])

PrepareDependencyGraph(actionList) == PrepareLoop(1, actionList, EmptyIndex)

CheckDependencies(action, callIndex) ==
    LET deps == action.DependsOn IN
    IF deps.present /\ (\/ \E dep \in deps.Success : dep \notin DOMAIN callIndex
                        \/ \E dep \in deps.Running : dep \notin DOMAIN callIndex)
    THEN Errorf("invalid dependency", {action.Name} \cup deps.Success \cup deps.Running)
    ELSE NoError

CheckAssertions(action) ==
    IF assert_IsZero(action.AssertExpr) THEN NoError
    ELSE IF "Delete" \in action.Embed
    THEN Errorf("Delete job cannot have assertion", {})
    ELSE IF HasStateExpr(action.AssertExpr) /\ FiredState(action.AssertExpr, EmptyView).err
    THEN Errorf("invalid state expr", {action.Name})
    ELSE IF assert_HasMetricsExpr(action.AssertExpr) /\ ParseAlertExpr(action.AssertExpr)
    THEN Errorf("invalid metrics expr", {action.Name})
    ELSE NoError

\* CheckTemplateRef: the template collaborator's answer, tmplErr, is an input.
CheckTemplateRef(action, tmplErr) ==
    IF tmplErr /\ action.ActionType \in {"Service", "Cluster", "Chaos", "Cascade"}
    THEN Errorf("cannot retrieve spec", {})
    ELSE NoError

\* The loop over action.Delete.Jobs, from job i on.
RECURSIVE JobsLoop(_, _, _, _)
JobsLoop(i, action, actionList, callIndex) ==
    IF i > Len(action.Jobs) THEN NoError
    ELSE LET job == action.Jobs[i] IN
         IF job \notin DOMAIN callIndex
         THEN Errorf("job does not exist", {job, action.Name})
         ELSE IF actionList[callIndex[job]].ActionType = "Delete"
         THEN Errorf("cycle deletion", {job, action.Name})
         ELSE JobsLoop(i + 1, action, actionList, callIndex)

\* Mutant of CheckJobRef: the jobs of a Delete are not looked at.
CheckJobRef_Unchecked(action, actionList, callIndex) == NoError

CheckJobRef(action, actionList, callIndex) ==
    IF action.ActionType = "Delete"
    THEN JobsLoop(1, action, actionList, callIndex)
    ELSE NoError

\* The body of the loop of Validate for one action: the first error of the
\* four checks, wrapped with the action's name.
CheckAction(action, actionList, callIndex, tmplErr) ==
    LET e1 == CheckDependencies(action, callIndex)
        e2 == CheckAssertions(action)
        e3 == CheckTemplateRef(action, tmplErr)
        e4 == CheckJobRef(action, actionList, callIndex)
    IN  IF e1 # NoError THEN Wrapf(e1, action.Name)
        ELSE IF e2 # NoError THEN Wrapf(e2, action.Name)
        ELSE IF e3 # NoError THEN Wrapf(e3, action.Name)
        ELSE IF e4 # NoError THEN Wrapf(e4, action.Name)
        ELSE NoError

\* (*Controller).Validate: the errors it can return. The loop ranges over a
\* map, so the action whose error is returned is any of those that have one.
Validate(actionList, tmplErr) ==
    LET g == PrepareDependencyGraph(actionList) IN
    IF g.err # NoError THEN {g.err}
    ELSE LET errs == { CheckAction(actionList[g.index[n]], actionList, g.index, tmplErr) :
                            n \in DOMAIN g.index } \ {NoError}
         IN  IF errs = {} THEN {NoError} ELSE errs

\* The first loop of ValidateDAG: the index of names; a later action replaces
\* an earlier one of the same name.
RECURSIVE IndexLoop(_, _, _)
IndexLoop(i, list, index) ==
    IF i > Len(list)
    THEN [err |-> NoError, index |-> index]
    ELSE LET action == list[i] IN
         IF ~IsQualifiedName(action.Name)
         THEN [err |-> Errorf("invalid name", {action.Name}), index |-> EmptyIndex]
         ELSE IndexLoop(i + 1, list,
                  [n \in DOMAIN index \cup {action.Name} |->
                      IF n = action.Name THEN i ELSE index[n]])

\* The second loop of ValidateDAG, from action i on. action.Delete is read
\* through the embedded pointer: with no Delete spec the read of its Jobs is a
\* nil dereference.
RECURSIVE DAGLoop(_, _, _)
DAGLoop(i, list, index) ==
    IF i > Len(list) THEN NoError
    ELSE LET action == list[i]
             e1 == CheckDependencies(action, index)
         IN
         IF e1 # NoError THEN e1
         ELSE IF ~assert_IsZero(action.AssertExpr) /\ ~action.HasEmbed THEN Panicked
         ELSE IF CheckAssertions(action) # NoError THEN CheckAssertions(action)
         ELSE IF action.ActionType = "Delete" /\ "Delete" \notin action.Embed THEN Panicked
         ELSE IF action.ActionType = "Delete" /\ JobsLoop(1, action, list, index) # NoError
         THEN JobsLoop(1, action, list, index)
         ELSE DAGLoop(i + 1, list, index)

ValidateDAG(list) ==
    LET g == IndexLoop(1, list, EmptyIndex) IN
    IF g.err # NoError THEN g.err ELSE DAGLoop(1, list, g.index)

\* ---- the plans that are submitted
PlanNames == {"D1", "D2"}
DepChoices ==
    {NilDeps} \cup
    { [present |-> TRUE, Success |-> {n}, Running |-> {}, hasAfter |-> FALSE, After |-> 0] :
        n \in {"D1", "D2", "X"} } \cup
    { [present |-> TRUE, Success |-> {}, Running |-> {n}, hasAfter |-> FALSE, After |-> 0] :
        n \in {"D1"} }
JobChoices == {<<>>} \cup {<<n>> : n \in {"D1", "D2", "X"}}

\* Well-typed actions of the two kinds the reference checks tell apart.
TypedActions(name) ==
    { [Name |-> name, ActionType |-> t, HasEmbed |-> TRUE, Embed |-> {t},
       DependsOn |-> d, AssertExpr |-> a, Jobs |-> j] :
        t \in {"Service", "Delete"}, d \in DepChoices, a \in AssertKinds, j \in JobChoices }

PairPlans ==
    { <<a, b>> : a \in { x \in TypedActions("D1") : x.ActionType = "Delete" \/ x.Jobs = <<>> },
                 b \in { x \in UNION {TypedActions(n) : n \in PlanNames} :
                            x.ActionType = "Delete" \/ x.Jobs = <<>> } }

\* Plans of one action with any type and at most MaxEmbed embedded specs.
SinglePlans ==
    { << [Name |-> n, ActionType |-> t, HasEmbed |-> h, Embed |-> e,
          DependsOn |-> NilDeps, AssertExpr |-> "none", Jobs |-> <<>>] >> :
        n \in {"D1", "d 1"}, t \in ActionTypes, h \in BOOLEAN,
        e \in {x \in SUBSET EmbedKinds : Cardinality(x) <= MaxEmbed} }

ValidatorNames == {"Validate", "ValidateDAG"}

ValidateInit ==
    /\ \E p \in PairPlans \cup {q \in SinglePlans : q[1].HasEmbed \/ q[1].Embed = {}},
          v \in ValidatorNames :
        val = [plan |-> p, validator |-> v, visits |-> 0,
               status |-> [Phase |-> PhaseUninitialized, Reason |-> "", Conds |-> {}],
               verdict |-> NoError, dispatched |-> {}]
    /\ SchedIdle /\ LifeIdle /\ red = NoRed /\ ScnIdle /\ CronIdle /\ SchIdle /\ ViewIdle /\ FinIdle /\ StopIdle /\ TelemetryIdle /\ ReleaseIdle /\ WebhookIdle

\* The view of a Scenario whose dispatched children have not started yet.
PlanView(p, dispatched) ==
    [n \in {p[i].Name : i \in 1..Len(p)} \cup {"X"} |->
        IF n \in dispatched THEN PhasePending ELSE NoChild]

\* A reconciliation round of the Scenario: on the first visit the plan is
\* validated and a rejected plan moves the Scenario to Failed; a Scenario that
\* is not terminal dispatches the ready actions.
ScenarioVisit ==
    /\ val.visits < MaxVisits
    /\ \E tmplErr \in BOOLEAN :
        \E err \in (IF val.validator = "Validate"
                    THEN Validate(val.plan, tmplErr) ELSE {ValidateDAG(val.plan)}) :
          LET first == val.status.Phase = PhaseUninitialized
              schedule == GetNextLogicalJob(Timebase, val.plan,
                                            PlanView(val.plan, val.dispatched), val.dispatched,
                                            [i \in 1..Len(val.plan) |-> Timebase]).schedule
          IN
          IF val.status.Phase \in {PhaseSuccess, PhaseFailed}
          THEN val' = [val EXCEPT !.visits = @ + 1]
          ELSE IF first /\ err = Panicked
          THEN val' = [val EXCEPT !.visits = @ + 1, !.verdict = err]
          ELSE IF first /\ err # NoError
          THEN val' = [val EXCEPT !.visits = @ + 1, !.verdict = err,
                                  !.status = [Phase |-> PhaseFailed, Reason |-> "ValidationError",
                                              Conds |-> {}]]
          ELSE val' = [val EXCEPT !.visits = @ + 1,
                                  !.status = [Phase |-> PhasePending, Reason |-> "JobPending",
                                              Conds |-> {}],
                                  !.dispatched = @ \cup NamesOf(schedule)]
    /\ UNCHANGED <<schedVars, lifeVars, red, scn, cron, sch, vw, fin, stp, tel, rel, web>>

ValidateNext == ScenarioVisit

SpecValidate == ValidateInit /\ [][ValidateNext]_vars

\* ---- claims about validation
DefinedNames(p) == {p[i].Name : i \in 1..Len(p)}
HasDuplicateName(p) == \E i, j \in 1..Len(p) : i < j /\ p[i].Name = p[j].Name
HasUnresolvedDep(p) ==
    \E i \in 1..Len(p) :
        /\ p[i].DependsOn.present
        /\ ~((p[i].DependsOn.Success \cup p[i].DependsOn.Running) \subseteq DefinedNames(p))
DeleteTargetsUndefinedOrDelete(p) ==
    \E i \in 1..Len(p) :
        /\ p[i].ActionType = "Delete"
        /\ \E k \in 1..Len(p[i].Jobs) :
            \/ p[i].Jobs[k] \notin DefinedNames(p)
            \/ \E j \in 1..Len(p) :
                j # i /\ p[j].Name = p[i].Jobs[k] /\ p[j].ActionType = "Delete"
HasAssertOnDelete(p) ==
    \E i \in 1..Len(p) : p[i].ActionType = "Delete" /\ p[i].AssertExpr # "none"
HasMalformedAssert(p) ==
    \E i \in 1..Len(p) : p[i].AssertExpr \in {"malformed", "badmetrics"}
Rejected == val.verdict.kind \notin {"nil", "panic"}

\* C13: every plan with a duplicate action name, an unresolved dependency, a
\* Delete whose jobs name an undefined action or another Delete, an assertion
\* on a Delete or a malformed assertion makes validation return an error.
C13_InvalidPlansRejected ==
    (/\ val.visits > 0
     /\ \/ HasDuplicateName(val.plan)
        \/ HasUnresolvedDep(val.plan)
        \/ DeleteTargetsUndefinedOrDelete(val.plan)
        \/ HasAssertOnDelete(val.plan)
        \/ HasMalformedAssert(val.plan))
    => Rejected

\* A Delete of the plan names another Delete of the plan among its dependencies.
DeleteDependsOnDelete(p) ==
    \E i, j \in 1..Len(p) :
        /\ i # j
        /\ p[i].ActionType = "Delete" /\ p[j].ActionType = "Delete"
        /\ p[i].DependsOn.present
        /\ p[j].Name \in p[i].DependsOn.Success \cup p[i].DependsOn.Running

\* C14: Validate rejects every plan in which a Delete names another Delete in
\* its depends.success or depends.running.
C14_DeleteDependingOnDeleteRejected ==
    (val.visits > 0 /\ val.validator = "Validate" /\ DeleteDependsOnDelete(val.plan))
    => Rejected

\* The type check of C15: the type is one of the seven and the one embedded
\* spec that is present is the matching one.
TypeCheckExpected(act) ==
    /\ act.ActionType \in SwitchTypes \cup {"VirtualObject"}
    /\ act.HasEmbed
    /\ act.Embed = {act.ActionType}

\* C15: an action passes the type check of PrepareDependencyGraph if and only
\* if its type is one of Service, Cluster, Chaos, Cascade, Call, Delete,
\* VirtualObject and exactly one embedded spec is present, the matching one.
C15_TypeCheckExact ==
    (val.visits > 0 /\ val.validator = "Validate" /\ Len(val.plan) = 1)
    => (val.verdict.kind # "incorrect spec" <=> TypeCheckExpected(val.plan[1]))

\* The plan D1 = Delete{jobs: [D2]}, D2 = Delete{jobs: [D1]}.
IsDeleteCycle(p) ==
    /\ Len(p) = 2
    /\ p[1].Name = "D1" /\ p[1].ActionType = "Delete" /\ p[1].Jobs = <<"D2">>
    /\ p[2].Name = "D2" /\ p[2].ActionType = "Delete" /\ p[2].Jobs = <<"D1">>
    /\ \A i \in 1..2 : ~p[i].DependsOn.present /\ p[i].AssertExpr = "none"

\* C16: after a failed validation no action is dispatched, in the round of the
\* validation or in a later one; and the validation of the plan D1 =
\* Delete{jobs: [D2]}, D2 = Delete{jobs: [D1]} returns an error that names D1.
C16_RejectedPlanDispatchesNothing ==
    /\ (val.visits > 0 /\ Rejected) => (val.dispatched = {} /\ val.status.Phase = PhaseFailed)
    /\ (val.visits > 0 /\ IsDeleteCycle(val.plan)) => (Rejected /\ "D1" \in val.verdict.names)

\* The delete cycle has been rejected and a later round has run.
C16_Witness ==
    /\ val.visits = MaxVisits /\ IsDeleteCycle(val.plan)
    /\ val.verdict.kind = "cycle deletion" /\ val.dispatched = {}

\* ------------------------------------------------------ the time scheduler
\* Time is counted in ticks of 60 / TicksPerMinute seconds; the zero time is
\* ZeroTime, so every instant of the model is at least 1.

\* cron.ParseStandard: the schedules "every minute" and "every second minute"
\* parse, anything else does not. every is the distance of two activations.
ParseStandard(spec) ==
    IF spec = "*/1 * * * *" THEN [err |-> FALSE, every |-> TicksPerMinute]
    ELSE IF spec = "*/2 * * * *" THEN [err |-> FALSE, every |-> 2 * TicksPerMinute]
    ELSE [err |-> TRUE, every |-> 0]

\* sched.Next(t): the first activation strictly after t.
cron_Next(sched, t) == ((t \div sched.every) + 1) * sched.every

\* Mutant of MissedLoop: the loop gives up one start later.
RECURSIVE MissedLoop_Late(_, _, _, _, _)
MissedLoop_Late(t, cur, sched, lastMissed, starts) ==
    IF t > cur
    THEN [lastMissed |-> lastMissed, next |-> cron_Next(sched, cur), err |-> FALSE,
          starts |-> starts]
    ELSE IF starts + 1 > MaxStarts + 1
    THEN [lastMissed |-> ZeroTime, next |-> ZeroTime, err |-> TRUE, starts |-> starts + 1]
    ELSE MissedLoop_Late(cron_Next(sched, t), cur, sched, t, starts + 1)

\* Mutant of MissedLoop: the first missed activation is kept, not the latest.
RECURSIVE MissedLoop_First(_, _, _, _, _)
MissedLoop_First(t, cur, sched, lastMissed, starts) ==
    IF t > cur
    THEN [lastMissed |-> lastMissed, next |-> cron_Next(sched, cur), err |-> FALSE,
          starts |-> starts]
    ELSE IF starts + 1 > MaxStarts
    THEN [lastMissed |-> ZeroTime, next |-> ZeroTime, err |-> TRUE, starts |-> starts + 1]
    ELSE MissedLoop_First(cron_Next(sched, t), cur, sched,
                          IF lastMissed = ZeroTime THEN t ELSE lastMissed, starts + 1)

\* for t := sched.Next(earliestTime); !t.After(cur); t = sched.Next(t). starts
\* is the number of times the body has been entered.
RECURSIVE MissedLoop(_, _, _, _, _)
MissedLoop(t, cur, sched, lastMissed, starts) ==
    IF t > cur
    THEN [lastMissed |-> lastMissed, next |-> cron_Next(sched, cur), err |-> FALSE,
          starts |-> starts]
    ELSE IF starts + 1 > MaxStarts
    THEN [lastMissed |-> ZeroTime, next |-> ZeroTime, err |-> TRUE, starts |-> starts + 1]
    ELSE MissedLoop(cron_Next(sched, t), cur, sched, t, starts + 1)

\* Mutant of EarliestTime: the starting deadline is not looked at.
EarliestTime_NoDeadline(creation, hasDeadline, deadline, lastSchedule, cur) ==
    IF lastSchedule = ZeroTime THEN creation ELSE lastSchedule

\* Mutant of EarliestTime: the scheduling deadline lies two starting
\* deadlines back.
EarliestTime_Doubled(creation, hasDeadline, deadline, lastSchedule, cur) ==
    LET e == IF lastSchedule = ZeroTime THEN creation ELSE lastSchedule
    IN  IF hasDeadline /\ cur - 2 * deadline > e THEN cur - 2 * deadline ELSE e

\* earliestTime of getNextScheduleTime.
EarliestTime(creation, hasDeadline, deadline, lastSchedule, cur) ==
    LET e == IF lastSchedule = ZeroTime THEN creation ELSE lastSchedule
    IN  IF hasDeadline /\ cur - deadline > e THEN cur - deadline ELSE e

getNextScheduleTime(creation, spec, hasDeadline, deadline, lastSchedule, cur) ==
    LET sched == ParseStandard(spec)
        earliestTime == EarliestTime(creation, hasDeadline, deadline, lastSchedule, cur)
    IN  IF sched.err
        THEN [lastMissed |-> ZeroTime, next |-> ZeroTime, err |-> TRUE, starts |-> 0]
        ELSE IF earliestTime > cur
        THEN [lastMissed |-> ZeroTime, next |-> cron_Next(sched, cur), err |-> FALSE,
              starts |-> 0]
        ELSE MissedLoop(cron_Next(sched, earliestTime), cur, sched, ZeroTime, 0)

\* Mutant of tooLate: a run is late as soon as its deadline is reached.
tooLate_Inclusive(hasDeadline, deadline, missedRun, cur) ==
    hasDeadline /\ missedRun + deadline <= cur

\* tooLate of timeBasedWithDeadline, with cur the reading of time.Now().
tooLate(hasDeadline, deadline, missedRun, cur) ==
    hasDeadline /\ missedRun + deadline < cur

\* timeBasedWithDeadline, from the result g of its call of getNextScheduleTime
\* on: whether an instance is authorized, the instant the request is requeued
\* at (ZeroTime: no timed requeue) and whether the object is moved to Failed.
\* later is the clock read for the deadline.
timeBasedWithDeadline(g, hasDeadline, deadline, later) ==
        IF g.err
        THEN [outcome |-> "Unschedulable", ok |-> FALSE, requeueAt |-> ZeroTime, g |-> g]
        ELSE IF g.lastMissed = ZeroTime
        THEN IF g.next = ZeroTime
             THEN [outcome |-> "Complete", ok |-> FALSE, requeueAt |-> ZeroTime, g |-> g]
             ELSE [outcome |-> "Requeue", ok |-> FALSE, requeueAt |-> g.next, g |-> g]
        ELSE IF tooLate(hasDeadline, deadline, g.lastMissed, later)
        THEN [outcome |-> "Failed", ok |-> FALSE, requeueAt |-> ZeroTime, g |-> g]
        ELSE [outcome |-> "Fired", ok |-> TRUE, requeueAt |-> ZeroTime, g |-> g]

CronSpecs == {"*/1 * * * *", "*/2 * * * *", "not a schedule"}

\* How long the controller can be away between two rounds: a tick, five
\* minutes, and long enough for more than MaxStarts activations.
Sleeps == {1, 5 * TicksPerMinute, (MaxStarts + 1) * TicksPerMinute}

NoDecision ==
    [valid |-> FALSE, cur |-> ZeroTime, later |-> ZeroTime, slept |-> 0,
     lastBefore |-> ZeroTime, firedBefore |-> 0, outcome |-> "", ok |-> FALSE, requeueAt |-> ZeroTime,
     lastMissed |-> ZeroTime, next |-> ZeroTime, err |-> FALSE, starts |-> 0]

\* An object with a schedule, created at one of the instants of a minute; the
\* controller's clock may be a tick behind the clock that stamped the creation.
CronInit ==
    /\ \E creation \in 1..TicksPerMinute, spec \in CronSpecs, hasDeadline \in BOOLEAN,
          skew \in 0..1 :
        /\ creation - skew >= 1
        /\ cron = [spec |-> spec, hasDeadline |-> hasDeadline,
                   deadline |-> IF hasDeadline THEN DeadlineTicks ELSE 0,
                   creation |-> creation, lastScheduleTime |-> ZeroTime,
                   clock |-> creation - skew, slept |-> 0, sleeps |-> 0, rounds |-> 0,
                   phase |-> PhasePending, fired |-> 0, res |-> NoDecision]
    /\ SchedIdle /\ LifeIdle /\ red = NoRed /\ ScnIdle /\ ValIdle /\ SchIdle /\ ViewIdle /\ FinIdle /\ StopIdle /\ TelemetryIdle /\ ReleaseIdle /\ WebhookIdle

\* The controller is away: the clock moves on and no round runs.
CronSleep ==
    /\ cron.sleeps < MaxSleeps
    /\ \E d \in Sleeps :
        cron' = [cron EXCEPT !.clock = @ + d, !.slept = @ + d, !.sleeps = @ + 1]
    /\ UNCHANGED <<schedVars, lifeVars, red, scn, val, sch, vw, fin, stp, tel, rel, web>>

\* A round of an object that is not terminal: the scheduling decision and, for
\* an authorized instance, its creation and the journal of the round
\* (LastScheduleTime = time.Now()). lag is the time between the two readings
\* of the clock.
CronRound ==
    /\ cron.rounds < MaxCronRounds
    /\ cron.phase # PhaseFailed
    /\ \E g \in {getNextScheduleTime(cron.creation, cron.spec, cron.hasDeadline,
                                     cron.deadline, cron.lastScheduleTime, cron.clock)},
          lag \in 0..MaxLag, createOK \in BOOLEAN :
        LET cur == cron.clock
            later == cur + lag
            d == timeBasedWithDeadline(g, cron.hasDeadline, cron.deadline, later)
            res == [valid |-> TRUE, cur |-> cur, later |-> later, slept |-> cron.slept,
                    lastBefore |-> cron.lastScheduleTime, firedBefore |-> cron.fired,
                    outcome |-> IF d.ok /\ ~createOK THEN "CreateFailed" ELSE d.outcome,
                    ok |-> d.ok, requeueAt |-> d.requeueAt,
                    lastMissed |-> d.g.lastMissed, next |-> d.g.next, err |-> d.g.err,
                    starts |-> d.g.starts]
        IN  /\ (~d.ok => createOK)
            /\ cron' = [cron EXCEPT
                          !.clock = later, !.slept = 0, !.rounds = @ + 1, !.res = res,
                          !.phase = IF d.outcome = "Failed" \/ (d.ok /\ ~createOK)
                                    THEN PhaseFailed ELSE PhasePending,
                          !.fired = IF d.ok /\ createOK THEN @ + 1 ELSE @,
                          !.lastScheduleTime = IF d.ok /\ createOK THEN later ELSE @]
    /\ UNCHANGED <<schedVars, lifeVars, red, scn, val, sch, vw, fin, stp, tel, rel, web>>

CronNext == CronSleep \/ CronRound

SpecCron == CronInit /\ [][CronNext]_vars

\* ---- claims about the time scheduler
Later(a, b) == IF a > b THEN a ELSE b
SetMax(S) == CHOOSE x \in S : \A y \in S : y <= x

\* The schedule of the object, and the round's earliest time as C18 words it.
ObjSched == ParseStandard(cron.spec)
RoundEarliest ==
    LET base == IF cron.res.lastBefore = ZeroTime THEN cron.creation ELSE cron.res.lastBefore
    IN  IF cron.hasDeadline THEN Later(base, cron.res.cur - cron.deadline) ELSE base

\* The activations of the schedule after lo and up to hi.
ActivationsIn(lo, hi) == {t \in (lo + 1)..hi : t % ObjSched.every = 0}
RoundActivations == ActivationsIn(RoundEarliest, cron.res.cur)
\* The first activation after t.
FollowingActivation(t) == CHOOSE n \in (t + 1)..(t + ObjSched.every) : n % ObjSched.every = 0
Scheduled == cron.res.valid /\ ~ObjSched.err

\* C17 as stated: the loop over the missed activations makes at most 100
\* iterations, and with more than 100 activations between earliestTime and now
\* the result is the error, with empty missed and next times.
C17_AtMostHundredIterations ==
    Scheduled =>
        /\ cron.res.starts <= MaxStarts
        /\ Cardinality(RoundActivations) > MaxStarts =>
              (cron.res.err /\ cron.res.lastMissed = ZeroTime /\ cron.res.next = ZeroTime)

\* C17, amended: the body of the loop is entered at most 101 times, the 101st
\* time to return the error; up to 100 activations are listed without error,
\* more than 100 give the error with empty missed and next times.
C17_HundredFirstIterationGivesUp ==
    Scheduled =>
        /\ cron.res.starts <= MaxStarts + 1
        /\ Cardinality(RoundActivations) > MaxStarts =>
              (/\ cron.res.starts = MaxStarts + 1
               /\ cron.res.err /\ cron.res.lastMissed = ZeroTime /\ cron.res.next = ZeroTime)
        /\ Cardinality(RoundActivations) <= MaxStarts =>
              (~cron.res.err /\ cron.res.starts = Cardinality(RoundActivations))

\* A round has given up on more than 100 missed activations.
C17_Witness == Scheduled /\ cron.res.err /\ cron.res.starts = MaxStarts + 1

\* What C18 expects of a round: the latest activation after the earliest time
\* and up to now, if any, and the first activation after now.
ExpectedMissed == IF RoundActivations = {} THEN ZeroTime ELSE SetMax(RoundActivations)

\* C18 as stated: if earliestTime > now there is no missed run and next is
\* cron.Next(now); otherwise missed is the latest activation t with
\* earliestTime < t <= now, none if there is none, and next is cron.Next(now).
C18_LatestMissedAndNext ==
    Scheduled =>
        /\ cron.res.lastMissed = ExpectedMissed
        /\ cron.res.next = FollowingActivation(cron.res.cur)

\* C18, amended: the same as long as at most 100 activations lie after
\* earliestTime and up to now; with more the result is the error and both
\* times are empty.
C18_LatestMissedUnlessTooMany ==
    Scheduled =>
        IF Cardinality(RoundActivations) > MaxStarts
        THEN cron.res.err /\ cron.res.lastMissed = ZeroTime /\ cron.res.next = ZeroTime
        ELSE /\ ~cron.res.err
             /\ cron.res.lastMissed = ExpectedMissed
             /\ cron.res.next = FollowingActivation(cron.res.cur)

\* A round has found several missed activations and kept the latest.
C18_Witness ==
    /\ Scheduled /\ ~cron.res.err
    /\ Cardinality(RoundActivations) >= 2
    /\ cron.res.lastMissed = SetMax(RoundActivations)

MissedRun == Scheduled /\ ~cron.res.err /\ cron.res.lastMissed # ZeroTime
Misfire == cron.hasDeadline /\ cron.res.lastMissed + cron.deadline < cron.res.later

WokenUp ==
    /\ cron.res.valid /\ cron.spec = "*/1 * * * *" /\ cron.hasDeadline
    /\ cron.res.slept >= 5 * TicksPerMinute
LatestBoundary == SetMax(ActivationsIn(0, cron.res.cur))

\* C20 as stated: that round fires exactly one instance, for the latest missed
\* minute boundary, and the next activation it computes is the following
\* boundary, at whatever instant of the minute the controller wakes up.
C20_WakeUpFiresLatestMinute ==
    WokenUp =>
        /\ cron.res.ok /\ cron.res.lastMissed = LatestBoundary
        /\ cron.res.next = LatestBoundary + TicksPerMinute

\* C20, amended: the round fires one instance for the latest minute boundary
\* if it wakes up less than ten seconds after it and the deadline has not
\* passed when it is checked (if it has, the object fails); waking up ten
\* seconds or more after the boundary it fires nothing and requeues at the
\* following boundary.
C20_WakeUpFiresWithinDeadline ==
    WokenUp =>
        IF cron.res.cur - LatestBoundary < cron.deadline
        THEN /\ cron.res.lastMissed = LatestBoundary
             /\ cron.res.next = LatestBoundary + TicksPerMinute
             /\ IF LatestBoundary + cron.deadline < cron.res.later
                THEN cron.res.outcome = "Failed" /\ ~cron.res.ok
                ELSE cron.res.ok /\ cron.res.outcome \in {"Fired", "CreateFailed"}
        ELSE /\ cron.res.lastMissed = ZeroTime /\ ~cron.res.ok
             /\ cron.res.outcome = "Requeue"
             /\ cron.res.requeueAt = LatestBoundary + TicksPerMinute

\* The controller woke up within ten seconds of a minute boundary and fired
\* the instance of that boundary.
C20_Witness ==
    /\ WokenUp /\ cron.res.outcome = "Fired"
    /\ cron.res.lastMissed = LatestBoundary /\ cron.res.cur > LatestBoundary

\* ------------------------------------------------ the scheduling decision
\* cr.Spec.Schedule as Schedule reads it: absent (nil), or a SchedulerSpec
\* with an Event (the zero expression is "none"), a Cron, both or neither.
ScheduleShapes ==
    {s \in [present : BOOLEAN, event : UntilKinds, hasCron : BOOLEAN] :
        ~s.present => (s.event = "none" /\ ~s.hasCron)}

\* The view Schedule hands to the event: the jobs that are running.
ViewOf(running) == [pending |-> 0, running |-> running, successful |-> 0, failed |-> 0]

NoAnswer ==
    [valid |-> FALSE, alert |-> FALSE, running |-> 0, cur |-> ZeroTime, later |-> ZeroTime,
     outcome |-> "", ok |-> FALSE, requeueAt |-> ZeroTime,
     lastMissed |-> ZeroTime, next |-> ZeroTime, err |-> FALSE]

\* Mutant of Schedule: the cron is consulted before the event.
Schedule_CronFirst(schedule, fired, g, later) ==
    IF ~schedule.present
    THEN [outcome |-> "NoSchedule", ok |-> TRUE, requeueAt |-> ZeroTime, g |-> g]
    ELSE IF schedule.hasCron
    THEN timeBasedWithDeadline(g, schedule.hasDeadline, schedule.deadline, later)
    ELSE IF schedule.event # "none" /\ fired
    THEN [outcome |-> "Event", ok |-> TRUE, requeueAt |-> ZeroTime, g |-> g]
    ELSE [outcome |-> "NoEvent", ok |-> FALSE, requeueAt |-> ZeroTime, g |-> g]

\* Schedule(ctx, r, cr, schedule, lastSchedule, state). fired is the answer of
\* eval.IsTrue(state, cr) for the schedule's event, g the answer of
\* getNextScheduleTime, later the clock read for the starting deadline.
Schedule(schedule, fired, g, later) ==
    IF ~schedule.present
    THEN [outcome |-> "NoSchedule", ok |-> TRUE, requeueAt |-> ZeroTime, g |-> g]
    ELSE IF schedule.event # "none" /\ fired
    THEN [outcome |-> "Event", ok |-> TRUE, requeueAt |-> ZeroTime, g |-> g]
    ELSE IF schedule.hasCron
    THEN timeBasedWithDeadline(g, schedule.hasDeadline, schedule.deadline, later)
    ELSE [outcome |-> "NoEvent", ok |-> FALSE, requeueAt |-> ZeroTime, g |-> g]

\* An object and its schedule, before the first decision. The object was
\* created within the first minute and may have run once, at its creation.
ScheduleInit ==
    /\ \E s \in ScheduleShapes, spec \in CronSpecs, hasDeadline \in BOOLEAN,
          creation \in {1, TicksPerMinute}, ran \in BOOLEAN :
        /\ ~s.hasCron => (spec = "*/1 * * * *" /\ ~hasDeadline)
        /\ sch = [present |-> s.present, event |-> s.event, hasCron |-> s.hasCron,
                  spec |-> spec, hasDeadline |-> hasDeadline,
                  deadline |-> IF hasDeadline THEN DeadlineTicks ELSE 0,
                  creation |-> creation,
                  lastScheduleTime |-> IF ran THEN creation ELSE ZeroTime,
                  clock |-> creation, sleeps |-> 0, calls |-> 0,
                  phase |-> PhasePending, res |-> NoAnswer]
    /\ SchedIdle /\ LifeIdle /\ red = NoRed /\ ScnIdle /\ ValIdle /\ CronIdle /\ ViewIdle /\ FinIdle /\ StopIdle /\ TelemetryIdle /\ ReleaseIdle /\ WebhookIdle

\* Time passes between two decisions.
ScheduleSleep ==
    /\ sch.sleeps < MaxSleeps
    /\ \E d \in Sleeps : sch' = [sch EXCEPT !.clock = @ + d, !.sleeps = @ + 1]
    /\ UNCHANGED <<schedVars, lifeVars, red, scn, val, cron, vw, fin, stp, tel, rel, web>>

\* One call of Schedule for an object that is not terminal. The environment
\* answers whether the metrics alert is firing, how many jobs are running and
\* how far the clock moves between the two readings.
ScheduleCall ==
    /\ sch.calls < MaxScheduleCalls
    /\ sch.phase # PhaseFailed
    /\ \E g \in {getNextScheduleTime(sch.creation, sch.spec, sch.hasDeadline, sch.deadline,
                                     sch.lastScheduleTime, sch.clock)},
          alert \in (IF HasMetricsExpr(sch.event) THEN BOOLEAN ELSE {FALSE}),
          running \in (IF sch.event = "state" THEN 0..1 ELSE {0}),
          lag \in (IF sch.hasCron THEN 0..MaxLag ELSE {0}) :
        LET later == sch.clock + lag
            fired == IsTrue(sch.event, ViewOf(running), alert)
            d == Schedule(sch, fired, g, later)
        IN  sch' = [sch EXCEPT
                      !.clock = later, !.calls = @ + 1,
                      !.phase = IF d.outcome = "Failed" THEN PhaseFailed ELSE @,
                      !.res = [valid |-> TRUE, alert |-> alert, running |-> running,
                               cur |-> sch.clock, later |-> later,
                               outcome |-> d.outcome, ok |-> d.ok,
                               requeueAt |-> d.requeueAt,
                               lastMissed |-> g.lastMissed, next |-> g.next,
                               err |-> g.err]]
    /\ UNCHANGED <<schedVars, lifeVars, red, scn, val, cron, vw, fin, stp, tel, rel, web>>

ScheduleNext == ScheduleSleep \/ ScheduleCall

SpecSchedule == ScheduleInit /\ [][ScheduleNext]_vars

\* ---- claims about the scheduling decision
\* The event of the schedule evaluated true in the latest call.
EventHolds ==
    \/ sch.event = "metrics" /\ sch.res.alert
    \/ sch.event = "state" /\ sch.res.running >= 1

\* The time path authorizes the latest call: an activation was missed and its
\* starting deadline has not passed.
CronAuthorizes ==
    /\ sch.hasCron /\ ~sch.res.err
    /\ sch.res.lastMissed # ZeroTime
    /\ ~(sch.hasDeadline /\ sch.res.lastMissed + sch.deadline < sch.res.later)

\* C21: Schedule authorizes firing whenever the event of the schedule
\* evaluates true, whatever the cron says; with an event and a cron, firing is
\* authorized exactly if the event holds or the time path authorizes it; an
\* object without a schedule is always authorized. An authorization by the
\* event neither requeues the request nor fails the object.
C21_EventOrCronAuthorizes ==
    sch.res.valid =>
        /\ ~sch.present => sch.res.ok
        /\ (sch.present /\ EventHolds) =>
            (sch.res.ok /\ sch.res.requeueAt = ZeroTime /\ sch.phase # PhaseFailed)
        /\ (sch.present /\ sch.event # "none" /\ sch.hasCron) =>
            (sch.res.ok <=> (EventHolds \/ CronAuthorizes))

\* The event holds while the time path would have refused: an activation too
\* late for its deadline, no missed activation, or a cron that does not parse.
C21_Witness ==
    /\ sch.res.valid /\ sch.present /\ sch.hasCron /\ EventHolds /\ ~CronAuthorizes
    /\ sch.res.ok
    /\ sch.hasDeadline /\ sch.res.lastMissed # ZeroTime

\* ------------------------------------------ lifecycles: the until loop
\* The latest round of a Call with an until condition found every entry of
\* spec.services scheduled and the object Pending, wrote the status and did
\* not see the condition fire.
AfterLastJobOfUntilLoop ==
    /\ kind = "Call" /\ until # "none" /\ services >= 1
    /\ scheduledJobs = services - 1
    /\ round.outcome \notin {"None", "Requeue", "ListFailed"}
    /\ round.prev = PhasePending
    /\ ~round.create.tried
    /\ round.calc # PhaseRunning

\* C22: a Call with an until condition that does not fire moves to Failed
\* with reason MaxInstancesReached in the first round after the job of its
\* last service was scheduled, and no further job is scheduled.
C22_MaxInstancesAfterLastJob ==
    AfterLastJobOfUntilLoop =>
        /\ status.Phase = PhaseFailed /\ status.Reason = "MaxInstancesReached"
        /\ \A n \in ChildNames : n[1] >= services => children[n] = NoChild

\* ------------------------------------------------ the classifier's view
\* One controller reconciles two objects; each object owns pods. The
\* controller keeps one classifier (the field state of the Controller), which
\* every round resets and fills from the children it lists.
Parents == {"x", "y"}

\* The pods and the object each belongs to.
Owner == [a |-> "x", b |-> "x", c |-> "y"]
Pods == DOMAIN Owner

\* The adapter the controller classifies its pods with.
Adapters == {"Pod", "Containers"}

\* What the adapter reads from a pod. Pod(): pod.Status.Phase, one of the
\* five phases of corev1 or any other string ("Other"). Containers(): the
\* state of the pod's container whose name has no "-" ("NoState": none of
\* Waiting, Running, Terminated is set), or "SidecarOnly" when every
\* container of the pod has a "-" in its name.
PodPhases == {"Pending", "Running", "Succeeded", "Failed", "Unknown", "Other"}
ContainerStates ==
    {"Waiting", "Running", "TerminatedZero", "TerminatedNonZero", "NoState", "SidecarOnly"}
Observations(adapter) == IF adapter = "Pod" THEN PodPhases ELSE ContainerStates

\* A pod that is not in the store.
Absent == "Absent"

\* lifecycle.Pod(): the lifecycles of a pod, by pod.Status.Phase.
Pod(phase) ==
    IF phase = "Pending" THEN <<[Kind |-> "Pod", Phase |-> PhasePending]>>
    ELSE IF phase = "Running" THEN <<[Kind |-> "Pod", Phase |-> PhaseRunning]>>
    ELSE IF phase = "Succeeded" THEN <<[Kind |-> "Pod", Phase |-> PhaseSuccess]>>
    ELSE IF phase = "Failed" THEN <<[Kind |-> "Pod", Phase |-> PhaseFailed]>>
    ELSE IF phase = "Unknown" THEN <<[Kind |-> "Pod", Phase |-> PhaseFailed]>>
    ELSE <<>>

\* lifecycle.Containers(): one lifecycle per container that is not a sidecar
\* and has a state.
Containers(state) ==
    IF state = "SidecarOnly" THEN <<>>
    ELSE IF state = "Waiting" THEN <<[Kind |-> "Container", Phase |-> PhasePending]>>
    ELSE IF state = "Running" THEN <<[Kind |-> "Container", Phase |-> PhaseRunning]>>
    ELSE IF state = "TerminatedZero" THEN <<[Kind |-> "Container", Phase |-> PhaseSuccess]>>
    ELSE IF state = "TerminatedNonZero" THEN <<[Kind |-> "Container", Phase |-> PhaseFailed]>>
    ELSE <<>>

GetLifecycle(adapter, obs) == IF adapter = "Pod" THEN Pod(obs) ELSE Containers(obs)

\* Classifier.Reset(): four empty buckets.
Reset == [pending |-> {}, running |-> {}, successful |-> {}, failed |-> {}]

\* Classifier.Classify(name, child): the child is put in the bucket of the
\* phase of each lifecycle its adapter returns.
RECURSIVE ClassifyChild(_, _, _)
ClassifyChild(buckets, name, lifecycles) ==
    IF lifecycles = <<>>
    THEN buckets
    ELSE LET phase == Head(lifecycles).Phase
             placed ==
                IF phase = PhasePending
                THEN [buckets EXCEPT !.pending = @ \cup {name}]
                ELSE IF phase = PhaseRunning
                THEN [buckets EXCEPT !.running = @ \cup {name}]
                ELSE IF phase = PhaseSuccess
                THEN [buckets EXCEPT !.successful = @ \cup {name}]
                ELSE [buckets EXCEPT !.failed = @ \cup {name}]
         IN  ClassifyChild(placed, name, Tail(lifecycles))

\* for i, job := range childJobs.Items { r.state.Classify(...) }
RECURSIVE ClassifyItems(_, _, _)
ClassifyItems(buckets, adapter, items) ==
    IF items = {}
    THEN buckets
    ELSE LET item == CHOOSE i \in items : TRUE
         IN  ClassifyItems(ClassifyChild(buckets, item[1], GetLifecycle(adapter, item[2])),
                           adapter, items \ {item})

\* r.GetClient().List with the owner's filters: the pods of the object that
\* are in the store, each with what the adapter reads from it.
ListChildren(store, parent) ==
    {<<n, store[n]>> : n \in {p \in Pods : Owner[p] = parent /\ store[p] # Absent}}

NoViewUsed == [valid |-> FALSE, view |-> Reset, listed |-> {}]

\* workers: the number of rounds the controller runs at a time.
ViewInit ==
    /\ \E adapter \in Adapters, workers \in 1..MaxWorkers :
        \E store \in [Pods -> Observations(adapter) \cup {Absent}] :
            vw = [adapter |-> adapter, workers |-> workers, store |-> store,
                  state |-> Reset,
                  pc |-> [w \in Parents |-> "idle"],
                  listed |-> [w \in Parents |-> {}],
                  filledBy |-> "nobody",
                  used |-> [w \in Parents |-> NoViewUsed]]
    /\ SchedIdle /\ LifeIdle /\ red = NoRed /\ ScnIdle /\ ValIdle /\ CronIdle /\ SchIdle /\ FinIdle /\ StopIdle /\ TelemetryIdle /\ ReleaseIdle /\ WebhookIdle

\* Steps 2 and 3 of a round of object w: list the children, reset the
\* controller's classifier and classify what was listed. The round of an
\* object starts when a worker is free.
PopulateView(w) ==
    /\ vw.pc[w] = "idle"
    /\ Cardinality({o \in Parents : vw.pc[o] # "idle"}) < vw.workers
    /\ LET items == ListChildren(vw.store, w)
       IN  vw' = [vw EXCEPT !.pc[w] = "populated", !.listed[w] = items,
                            !.state = ClassifyItems(Reset, vw.adapter, items),
                            !.filledBy = w]
    /\ UNCHANGED <<schedVars, lifeVars, red, scn, val, cron, sch, fin, stp, tel, rel, web>>

\* Step 4 of the round of object w: calculateLifecycle(&cr, r.state) reads
\* the controller's classifier.
UpdateLifecycle(w) ==
    /\ vw.pc[w] = "populated"
    /\ vw' = [vw EXCEPT !.pc[w] = "idle",
                        !.used[w] = [valid |-> TRUE, view |-> vw.state,
                                     listed |-> vw.listed[w]]]
    /\ UNCHANGED <<schedVars, lifeVars, red, scn, val, cron, sch, fin, stp, tel, rel, web>>

\* A pod is deleted from the store.
PodGone(n) ==
    /\ vw.store[n] # Absent
    /\ vw' = [vw EXCEPT !.store[n] = Absent]
    /\ UNCHANGED <<schedVars, lifeVars, red, scn, val, cron, sch, fin, stp, tel, rel, web>>

PopulateViews == \E w \in Parents : PopulateView(w)
UpdateLifecycles == \E w \in Parents : UpdateLifecycle(w)
PodsGone == \E n \in Pods : PodGone(n)

ViewNext == PopulateViews \/ UpdateLifecycles \/ PodsGone

SpecView == ViewInit /\ [][ViewNext]_vars

\* ---- claims about the classifier's view
NamesIn(items) == {i[1] : i \in items}

BucketsOf(v) == <<v.pending, v.running, v.successful, v.failed>>

Disjoint(v) ==
    \A i, j \in 1..4 : i # j => BucketsOf(v)[i] \cap BucketsOf(v)[j] = {}

Covered(v) == v.pending \cup v.running \cup v.successful \cup v.failed

\* C23: once a round has populated the view, the four buckets are pairwise
\* disjoint and their union is the set of the children the round listed,
\* whatever the adapter reads from a child.
C23_EveryChildInOneBucket ==
    \A w \in Parents :
        (vw.pc[w] = "populated" /\ vw.filledBy = w) =>
            /\ Disjoint(vw.state)
            /\ Covered(vw.state) = NamesIn(vw.listed[w])

C25_StoreFailureIsRetried ==
    round.outcome \in {"ListFailed", "GetFailed"} =>
        /\ status.Phase = round.prev
        /\ status.Reason \notin {"unable to list child services", "retrieve pod"}

\* ------------------------------------------------ finalizer bookkeeping
\* common.Reconcile: the first step of every controller's Reconcile. It loads
\* the object and manages the controller's finalizer; requeue tells the
\* caller to return at once (TRUE) or to go on with its own logic (FALSE).

\* What r.GetClient().Get answers.
GetAnswers == {"nil", "NotFound", "error"}

Returned(outcome, requeue, finalized, finErr, write) ==
    [outcome |-> outcome, requeue |-> requeue, finalized |-> finalized, finErr |-> finErr,
     write |-> write]

\* Mutant of common_Reconcile: an error of Finalize is logged and the
\* finalizer is removed all the same.
common_Reconcile_IgnoreFinalizeError(obj, get, finErr, updateErr) ==
    IF get = "NotFound" THEN Returned("Stop", TRUE, FALSE, FALSE, "none")
    ELSE IF get = "error" THEN Returned("RequeueWithError", TRUE, FALSE, FALSE, "none")
    ELSE IF ~obj.deleting
    THEN IF ~obj.finalizer
         THEN IF updateErr
              THEN Returned("RequeueWithError", TRUE, FALSE, FALSE, "addFailed")
              ELSE Returned("Stop", TRUE, FALSE, FALSE, "added")
         ELSE Returned("Stop", FALSE, FALSE, FALSE, "none")
    ELSE IF obj.finalizer
    THEN IF updateErr
         THEN Returned("RequeueAfter", TRUE, TRUE, finErr, "removeFailed")
         ELSE Returned("Stop", TRUE, TRUE, finErr, "removed")
    ELSE Returned("Stop", FALSE, FALSE, FALSE, "none")

\* Mutant of common_Reconcile: a failed write of the removal ends the round
\* with Stop, without a requeue.
common_Reconcile_StopOnUpdateError(obj, get, finErr, updateErr) ==
    IF get = "NotFound" THEN Returned("Stop", TRUE, FALSE, FALSE, "none")
    ELSE IF get = "error" THEN Returned("RequeueWithError", TRUE, FALSE, FALSE, "none")
    ELSE IF ~obj.deleting
    THEN IF ~obj.finalizer
         THEN IF updateErr
              THEN Returned("RequeueWithError", TRUE, FALSE, FALSE, "addFailed")
              ELSE Returned("Stop", TRUE, FALSE, FALSE, "added")
         ELSE Returned("Stop", FALSE, FALSE, FALSE, "none")
    ELSE IF obj.finalizer
    THEN IF finErr
         THEN Returned("RequeueWithError", TRUE, TRUE, TRUE, "none")
         ELSE IF updateErr
         THEN Returned("Stop", TRUE, TRUE, FALSE, "removeFailed")
         ELSE Returned("Stop", TRUE, TRUE, FALSE, "removed")
    ELSE Returned("Stop", FALSE, FALSE, FALSE, "none")

\* common.Reconcile(ctx, r, req, obj, &requeue). obj is the object as the
\* store holds it; get, finErr and updateErr are the answers of Get, of
\* r.Finalize and of Update. finalized: r.Finalize was called. write: what
\* became of the Update that adds or removes the finalizer.
common_Reconcile(obj, get, finErr, updateErr) ==
    IF get = "NotFound" THEN Returned("Stop", TRUE, FALSE, FALSE, "none")
    ELSE IF get = "error" THEN Returned("RequeueWithError", TRUE, FALSE, FALSE, "none")
    ELSE IF ~obj.deleting
    THEN IF ~obj.finalizer
         THEN IF updateErr
              THEN Returned("RequeueWithError", TRUE, FALSE, FALSE, "addFailed")
              ELSE Returned("Stop", TRUE, FALSE, FALSE, "added")
         ELSE Returned("Stop", FALSE, FALSE, FALSE, "none")
    ELSE IF obj.finalizer
    THEN IF finErr
         THEN Returned("RequeueWithError", TRUE, TRUE, TRUE, "none")
         ELSE IF updateErr
         THEN Returned("RequeueAfter", TRUE, TRUE, FALSE, "removeFailed")
         ELSE Returned("Stop", TRUE, TRUE, FALSE, "removed")
    ELSE Returned("Stop", FALSE, FALSE, FALSE, "none")

\* What a round leaves behind: what common.Reconcile found and returned, and
\* whether the caller went on to its own logic (main).
NoFinalRound ==
    [valid |-> FALSE, get |-> "nil", deleting |-> FALSE, hadFinalizer |-> FALSE,
     outcome |-> "", finalized |-> FALSE, finErr |-> FALSE, write |-> "none",
     main |-> FALSE, created |-> FALSE]

\* An object that was just submitted. foreign: the object carries a
\* finalizer of somebody else (for instance the one of a foreground deletion).
\* external: what the controller has set up outside the object and Finalize
\* tears down ("none": not set up yet).
FinalInit ==
    /\ \E foreign \in BOOLEAN :
        fin = [exists |-> TRUE, deleting |-> FALSE, finalizer |-> FALSE,
               foreign |-> foreign, external |-> "none", children |-> 0,
               finalizeRuns |-> 0, rounds |-> 0,
               res |-> NoFinalRound, prevRes |-> NoFinalRound]
    /\ SchedIdle /\ LifeIdle /\ red = NoRed /\ ScnIdle /\ ValIdle /\ CronIdle /\ SchIdle /\ StopIdle /\ TelemetryIdle /\ ReleaseIdle /\ WebhookIdle
    /\ ViewIdle

\* One round of the object's controller: common.Reconcile and, when it says
\* so, the controller's own logic, which computes the lifecycle, sets up what
\* the object needs outside the store and creates the next child. A Finalize
\* that fails may have torn down its resources or not.
FinalRound ==
    /\ fin.rounds < MaxFinalRounds
    /\ \E get \in (IF fin.exists THEN {"nil", "error"} ELSE {"NotFound", "error"}),
          finErr \in BOOLEAN, updateErr \in BOOLEAN, tornDown \in BOOLEAN,
          createChild \in BOOLEAN :
        LET obj == [deleting |-> fin.deleting, finalizer |-> fin.finalizer]
            ret == common_Reconcile(obj, get, finErr, updateErr)
            main == ~ret.requeue
            gone == ret.write = "removed" /\ ~fin.foreign
        IN  /\ (~(ret.finalized /\ ret.finErr) => tornDown)
            /\ (~ret.finalized => ~finErr)
            /\ (ret.write = "none" => ~updateErr)
            /\ (createChild => main /\ fin.children < MaxChildren)
            /\ fin' = [fin EXCEPT
                         !.rounds = @ + 1,
                         !.finalizer = IF ret.write = "added" THEN TRUE
                                       ELSE IF ret.write = "removed" THEN FALSE ELSE @,
                         !.exists = IF gone THEN FALSE ELSE @,
                         !.external = IF ret.finalized /\ tornDown THEN "gone"
                                      ELSE IF main /\ @ = "none" THEN "up" ELSE @,
                         !.finalizeRuns = IF ret.finalized THEN @ + 1 ELSE @,
                         !.children = IF createChild THEN @ + 1 ELSE @,
                         !.prevRes = fin.res,
                         !.res = [valid |-> TRUE, get |-> get, deleting |-> fin.deleting,
                                  hadFinalizer |-> fin.finalizer, outcome |-> ret.outcome,
                                  finalized |-> ret.finalized, finErr |-> ret.finErr,
                                  write |-> ret.write, main |-> main,
                                  created |-> createChild]]
    /\ UNCHANGED <<schedVars, lifeVars, red, scn, val, cron, sch, vw, stp, tel, rel, web>>

\* The deletion of the object is requested: the store sets the deletion
\* timestamp and keeps the object as long as it carries a finalizer.
RequestDelete ==
    /\ fin.exists /\ ~fin.deleting
    /\ fin' = [fin EXCEPT !.deleting = TRUE,
                          !.exists = fin.finalizer \/ fin.foreign]
    /\ UNCHANGED <<schedVars, lifeVars, red, scn, val, cron, sch, vw, stp, tel, rel, web>>

\* The owner of the other finalizer removes it.
ForeignRelease ==
    /\ fin.exists /\ fin.deleting /\ fin.foreign
    /\ fin' = [fin EXCEPT !.foreign = FALSE, !.exists = fin.finalizer]
    /\ UNCHANGED <<schedVars, lifeVars, red, scn, val, cron, sch, vw, stp, tel, rel, web>>

FinalNext == FinalRound \/ RequestDelete \/ ForeignRelease

SpecFinal == FinalInit /\ [][FinalNext]_vars

\* ---- claims about the finalizer
\* The latest round loaded the object.
Loaded == fin.res.valid /\ fin.res.get = "nil"

\* C26: a round of a live object that lacks the controller's finalizer only
\* attaches the finalizer, writes the object and stops, without computing a
\* lifecycle or creating a child; and every object that reaches the
\* controller's own logic carries the finalizer.
C26_FinalizerBeforeMainLogic ==
    /\ (Loaded /\ ~fin.res.deleting /\ ~fin.res.hadFinalizer) =>
        /\ fin.res.write \in {"added", "addFailed"}
        /\ fin.res.outcome \in {"Stop", "RequeueWithError"}
        /\ ~fin.res.main /\ ~fin.res.created
    /\ fin.res.main => fin.res.hadFinalizer

\* The latest round found the object under deletion with the controller's
\* finalizer on it.
FinalizingRound == Loaded /\ fin.res.deleting /\ fin.res.hadFinalizer

\* C27: for an object under deletion that carries the finalizer, the
\* finalizer is removed only in a round whose Finalize returned without
\* error; when Finalize fails the finalizer stays and the request is requeued
\* with the error; when the write that removes the finalizer fails the request
\* is requeued, the finalizer stays and the next round that loads the object
\* runs Finalize again; the round that removes the finalizer leaves the
\* resources torn down, however many rounds failed before it.
C27_FinalizeBeforeRemoval ==
    /\ FinalizingRound =>
        /\ fin.res.finalized
        /\ (fin.res.write = "removed") = (~fin.finalizer)
        /\ ~fin.finalizer => (~fin.res.finErr /\ fin.external = "gone")
        /\ fin.res.finErr =>
            (fin.finalizer /\ fin.res.outcome = "RequeueWithError" /\ fin.res.write = "none")
        /\ fin.res.write = "removeFailed" =>
            (fin.finalizer /\ fin.res.outcome = "RequeueAfter" /\ fin.exists)
    /\ (fin.prevRes.valid /\ fin.prevRes.write = "removeFailed" /\ Loaded) =>
        (FinalizingRound /\ fin.res.finalized)

\* The write that removes the finalizer failed in one round and succeeded in
\* the next, after Finalize had run in both.
C27_Witness ==
    /\ fin.prevRes.valid /\ fin.prevRes.write = "removeFailed"
    /\ FinalizingRound /\ fin.res.write = "removed"
    /\ fin.finalizeRuns >= 2 /\ ~fin.finalizer /\ fin.external = "gone"

\* The latest round of a Stop or a Call object wrote the given phase as the
\* newly calculated lifecycle.
ParentIs(phase) ==
    /\ kind \in GroupKinds
    /\ round.outcome \notin {"None", "Requeue", "Panic", "ListFailed"}
    /\ round.calc = phase

\* C28: a round in which the parent is Success deletes every successful
\* child it found and keeps the parent with its status; a round in which the
\* parent is Failed deletes every pending and every running child it found;
\* and no step deletes a failed child.
C28_TerminalPolicies ==
    [][/\ (round' # round /\ ParentIs(PhaseSuccess)') =>
            /\ \A n \in ChildNames : children[n] = PhaseSuccess => children'[n] = NoChild
            /\ status'.Phase = PhaseSuccess
       /\ (round' # round /\ ParentIs(PhaseFailed)') =>
            \A n \in ChildNames :
                children[n] \in {PhasePending, PhaseRunning} => children'[n] = NoChild
       /\ \A n \in ChildNames : children[n] = PhaseFailed => children'[n] = PhaseFailed]_vars

\* The step is a reconciliation round that ended with a requeue because the
\* status write failed.
RequeuedRound == round' # round /\ round'.outcome = "Requeue"

\* C29: a round whose status write fails ends with a requeue and leaves the
\* children, the stored status and the journal of scheduled jobs as they
\* were; the round after it computes the lifecycle from the children as the
\* store holds them then, and from the stored status.
C29_FailedStatusWriteRequeues ==
    [][/\ RequeuedRound =>
            /\ children' = children
            /\ status' = status
            /\ scheduledJobs' = scheduledJobs /\ lastScheduleTime' = lastScheduleTime
       /\ (round.outcome = "Requeue" /\ round' # round) =>
            round'.gs = Classify(children) /\ round'.prev = status.Phase]_vars

\* A status write failed in a round that had calculated Failed while pending
\* or running children were out: the cleanup it did not reach is still due.
C29_Witness ==
    /\ round.outcome = "Requeue"
    /\ round.calc = PhaseFailed /\ round.prev # PhaseFailed
    /\ status.Phase = round.prev
    /\ round.gs.pending + round.gs.running > 0
    /\ Count(children, PhasePending) + Count(children, PhaseRunning) > 0

\* The latest round evaluated the until expression of a Stop or a Call, the
\* expression is a state expression that does not evaluate, and the round
\* wrote the lifecycle it calculated.
EvaluatedMalformed ==
    /\ kind \in GroupKinds
    /\ until = "malformed"
    /\ round.prev \in {PhasePending, PhaseRunning}
    /\ round.outcome \notin {"None", "Requeue", "Panic", "ListFailed"}

\* C30: a round in which the evaluation of the until state expression
\* returns an error leaves the object Failed with reason StateQueryError and
\* creates no job.
C30_ExpressionErrorFails ==
    EvaluatedMalformed =>
        /\ status.Phase = PhaseFailed
        /\ status.Reason = "StateQueryError"
        /\ ~round.create.tried

\* The step is a round of a Call with an until condition that wrote the
\* lifecycle it calculated.
CallUntilRound ==
    /\ kind = "Call" /\ until # "none"
    /\ round' # round
    /\ round'.outcome \notin {"Requeue", "Panic", "ListFailed"}

C32_UntilLoopTerminates ==
    (kind \in GroupKinds /\ until # "none" /\ status.Phase # PhaseUninitialized) =>
        /\ scheduledJobs + 1 <= services
        /\ (status.Phase = PhasePending /\ status.Reason = "SpawnUntilEvent") =>
                scheduledJobs + 1 < services

\* ------------------------------------- scheduler: the wake-up of an action
\* The call before the latest one found action n blocked on depends.after
\* alone; the view and the executed-set are the same for both calls.
BlockedOnAfter(n) ==
    /\ prev.valid /\ last.valid
    /\ TimeDecides(n) /\ plan[n].hasAfter
    /\ ~InSchedule(prev, n)

\* C33 as stated: the call that finds the action blocked returns a non-zero
\* wake-up time no later than the action's deadline, and the call made at
\* that wake-up time returns the action.
C33_ReadyAtWakeUp ==
    \A n \in ActionNames :
        BlockedOnAfter(n) =>
            /\ prev.nextCycle # ZeroTime
            /\ prev.nextCycle <= Timebase + plan[n].After
            /\ (last.clk[n] = prev.nextCycle) => InSchedule(last, n)

\* C33 amended: the call that finds the action blocked returns a non-zero
\* wake-up time no later than the action's deadline; a later call returns
\* the action exactly when its clock reading lies after the action's own
\* deadline, and until then every call again returns a non-zero wake-up time
\* no later than that deadline.
C33_ReadyAfterOwnDeadline ==
    \A n \in ActionNames :
        BlockedOnAfter(n) =>
            /\ prev.nextCycle # ZeroTime
            /\ prev.nextCycle <= Timebase + plan[n].After
            /\ InSchedule(last, n) <=> (last.clk[n] > Timebase + plan[n].After)
            /\ ~InSchedule(last, n) =>
                    /\ last.nextCycle # ZeroTime
                    /\ last.nextCycle <= Timebase + plan[n].After

\* An action blocked behind an earlier deadline: the call made at the
\* wake-up time left it out and named its own deadline, and the call after
\* that deadline returned it.
C33_Witness ==
    \E n \in ActionNames :
        /\ BlockedOnAfter(n)
        /\ prev.nextCycle < Timebase + plan[n].After
        /\ prev.clk[n] = prev.nextCycle
        /\ last.clk[n] > Timebase + plan[n].After
        /\ InSchedule(last, n)

\* ------------------------------------------- the Stop action of a workflow
\* (*Reconciler).stop of controllers/workflow/workflow.go: the services the
\* selector resolves are deleted one by one, at once or as the cron of the
\* action's schedule yields them. lifecycle.Chaos and common.YieldByTime are
\* not among the sources.
PhaseChaos == "Chaos"

\* The services of the test.
StopTargets == {"s1", "s2"}

\* service.Select(ctx, action.Stop.Selector): the services that match, in the
\* order of the list; none when the selection fails.
Selections == {<<>>, <<"s1">>, <<"s2">>, <<"s1", "s2">>}

\* The phases of a live service when the action starts.
LivePhases == {PhasePending, PhaseRunning, PhaseSuccess, PhaseFailed}

StopInit ==
    /\ stp \in [schedule : BOOLEAN,
                services : Selections,
                phase : [StopTargets -> LivePhases],
                deleted : {[s \in StopTargets |-> FALSE]},
                deletedIn : {[s \in StopTargets |-> "None"]},
                i : {1},
                pc : {"wait"}]
    /\ SchedIdle /\ LifeIdle /\ red = NoRed /\ ScnIdle /\ ValIdle /\ CronIdle /\ SchIdle /\ ViewIdle /\ FinIdle /\ TelemetryIdle /\ ReleaseIdle /\ WebhookIdle

\* r.wait on the dependencies, then the selection: an error of the wait ends
\* the action, an empty selection ends it with nothing to stop.
stop_Wait ==
    /\ stp # <<>> /\ stp.pc = "wait"
    /\ \E err \in BOOLEAN :
        stp' = [stp EXCEPT !.pc = IF err THEN "error"
                                  ELSE IF Len(stp.services) = 0 THEN "done"
                                  ELSE IF stp.schedule THEN "yield"
                                  ELSE "chaos"]
    /\ UNCHANGED <<schedVars, lifeVars, red, scn, val, cron, sch, vw, fin, tel, rel, web>>

\* Without schedule: `_, _ = lifecycle.Chaos(ctx, &services[i], ...)`. The
\* write of the Chaos phase may fail; its error is dropped.
stop_Chaos ==
    /\ stp # <<>> /\ stp.pc = "chaos"
    /\ \E ok \in BOOLEAN :
        stp' = [stp EXCEPT !.pc = "delete",
                           !.phase[stp.services[stp.i]] =
                                IF ok /\ ~stp.deleted[stp.services[stp.i]]
                                THEN PhaseChaos ELSE @]
    /\ UNCHANGED <<schedVars, lifeVars, red, scn, val, cron, sch, vw, fin, tel, rel, web>>

\* r.Client.Delete of the i-th service: an error ends the action, otherwise
\* the service is gone and the loop moves on.
Deleted(next, err) ==
    LET s == stp.services[stp.i]
    IN  IF err
        THEN [stp EXCEPT !.pc = "error"]
        ELSE [stp EXCEPT !.deleted[s] = TRUE,
                         !.deletedIn[s] = stp.phase[s],
                         !.i = @ + 1,
                         !.pc = IF stp.i + 1 > Len(stp.services) THEN "done" ELSE next]

\* Without schedule: the Delete that follows the Chaos mark.
stop_Delete ==
    /\ stp # <<>> /\ stp.pc = "delete"
    /\ \E err \in BOOLEAN : stp' = Deleted("chaos", err)
    /\ UNCHANGED <<schedVars, lifeVars, red, scn, val, cron, sch, vw, fin, tel, rel, web>>

\* With schedule: the body of `for service := range common.YieldByTime(...)`,
\* which deletes the service the cron yielded.
stop_YieldDelete ==
    /\ stp # <<>> /\ stp.pc = "yield"
    /\ \E err \in BOOLEAN : stp' = Deleted("yield", err)
    /\ UNCHANGED <<schedVars, lifeVars, red, scn, val, cron, sch, vw, fin, tel, rel, web>>

\* A live service that is not marked makes progress on its own while the
\* action waits or is between two deletions.
ServiceStep ==
    /\ stp # <<>>
    /\ \E s \in StopTargets, to \in {PhaseRunning, PhaseSuccess, PhaseFailed} :
        /\ ~stp.deleted[s]
        /\ \/ stp.phase[s] = PhasePending /\ to \in {PhaseRunning, PhaseFailed}
           \/ stp.phase[s] = PhaseRunning /\ to \in {PhaseSuccess, PhaseFailed}
        /\ stp' = [stp EXCEPT !.phase[s] = to]
    /\ UNCHANGED <<schedVars, lifeVars, red, scn, val, cron, sch, vw, fin, tel, rel, web>>

StopNext == stop_Wait \/ stop_Chaos \/ stop_Delete \/ stop_YieldDelete \/ ServiceStep

SpecStop == StopInit /\ [][StopNext]_vars

\* C34: every service a Stop action deleted, with or without a schedule, was
\* in the Chaos phase when its deletion was requested.
C34_ChaosBeforeDelete ==
    stp # <<>> =>
        \A s \in StopTargets : stp.deleted[s] => stp.deletedIn[s] = PhaseChaos

\* ------------------------------------- grouped jobs: the journal of jobs
\* The step creates a job.
JobCreated == \E n \in ChildNames : children[n] = NoChild /\ children'[n] # NoChild

\* The object went through its initialization: ScheduledJobs was set to -1,
\* and every job journaled since left its time in LastScheduleTime.
Initialized == scheduledJobs = -1 \/ lastScheduleTime # ZeroTime

\* The step initializes the object.
Initializes == round' # round /\ round'.outcome \in {"Initialized", "InitFailed"}

\* What holds of ScheduledJobs in every step, whatever becomes of the
\* journal: it is -1 after the initialization, it changes by the
\* initialization or by one, with a job created; without until it stays
\* below len(QueuedJobs); and no job is created in a round whose lifecycle
\* is Running, Success or Failed or whose object is suspended.
JournalSteps ==
    /\ Initializes => scheduledJobs' = -1
    /\ (scheduledJobs' # scheduledJobs /\ ~Initializes) =>
            scheduledJobs' = scheduledJobs + 1 /\ JobCreated
    /\ (until = "none" /\ Initialized) => scheduledJobs <= services - 1
    /\ JobCreated =>
            /\ round'.calc \notin {PhaseRunning, PhaseSuccess, PhaseFailed}
            /\ ~suspend
            /\ Cardinality({n \in ChildNames : children'[n] # children[n]}) = 1

\* C35 as stated: every created job is counted, so that ScheduledJobs + 1 is
\* the number of jobs created.
C35_EveryJobCounted ==
    [][(kind \in GroupKinds) =>
        (JournalSteps /\ (JobCreated => (scheduledJobs' = scheduledJobs + 1)))]_vars

\* C35 amended: a created job is counted unless the status write that
\* journals it fails; the uncounted job is the one of index ScheduledJobs + 1,
\* and while it is there no round creates a further job.
C35_JobCountedWhenJournaled ==
    [][(kind \in GroupKinds) =>
        (/\ JournalSteps
         /\ JobCreated =>
            (/\ children'[<<scheduledJobs + 1, 0>>] # NoChild
             /\ children[<<scheduledJobs + 1, 0>>] = NoChild
             /\ IF round'.outcome = "Unjournaled"
                THEN scheduledJobs' = scheduledJobs
                ELSE scheduledJobs' = scheduledJobs + 1))]_vars

\* The second job of an object was created and counted.
C35_Witness ==
    /\ kind \in GroupKinds
    /\ round.outcome = "Created" /\ round.calc = PhasePending
    /\ scheduledJobs = 1
    /\ children[<<0, 0>>] # NoChild /\ children[<<1, 0>>] # NoChild

\* ---- the time scheduler with one reading of the clock
\* The latest round read the clock once, its object has a starting deadline,
\* and getNextScheduleTime returned a missed run.
MissedWithOneReading ==
    /\ cron # <<>> /\ cron.res.valid
    /\ cron.hasDeadline
    /\ cron.res.later = cron.res.cur
    /\ cron.res.lastMissed # ZeroTime

\* C36: with a starting deadline and one reading of the clock, a missed run
\* that getNextScheduleTime returns is not older than the deadline, and the
\* round does not end in the scheduling violation.
C36_NoViolationWithOneReading ==
    MissedWithOneReading =>
        /\ cron.res.lastMissed + cron.deadline >= cron.res.cur
        /\ cron.res.outcome # "Failed"
        /\ cron.phase # PhaseFailed \/ cron.res.outcome = "CreateFailed"

\* The controller was away for minutes, longer than the starting deadline,
\* and the round that follows fires the run it missed.
C36_Witness ==
    /\ MissedWithOneReading
    /\ cron.res.slept > cron.deadline
    /\ cron.res.cur - cron.creation > cron.deadline
    /\ cron.res.outcome = "Fired"

\* ------------------------------------------------ the Telemetry controller
\* A Telemetry object owns the services of the monitoring stack. Its round
\* populates the view from the services, lets calculateLifecycle decide and
\* writes the lifecycle (controllers/telemetry/lifecycle.go).
telemetryServices == {"prometheus", "grafana"}

\* gs.NumRunningJobs(), gs.NumFailedJobs(), ... over the services of the
\* Telemetry object.
NumJobs(jobs, phase) == Cardinality({s \in telemetryServices : jobs[s] = phase})

\* calculateLifecycle of the Telemetry controller: the lifecycle it returns,
\* and whether it ends in panic("unhandled lifecycle conditions").
telemetry_calculateLifecycle(cycle, jobs) ==
    LET expectedJobs == Cardinality(telemetryServices)
    IN  IF cycle.Phase \in {PhaseUninitialized, PhaseSuccess, PhaseFailed}
        THEN [cycle |-> cycle, panic |-> FALSE]
        ELSE IF NumJobs(jobs, PhaseFailed) > 0
        THEN [cycle |-> [Phase |-> PhaseFailed, Reason |-> "JobHasFailed"], panic |-> FALSE]
        ELSE IF NumJobs(jobs, PhaseRunning) = expectedJobs
        THEN [cycle |-> [Phase |-> PhaseRunning, Reason |-> "JobIsRunning"], panic |-> FALSE]
        ELSE IF cycle.Phase = PhasePending
        THEN [cycle |-> [Phase |-> PhasePending, Reason |-> "JobIsPending"], panic |-> FALSE]
        ELSE [cycle |-> cycle, panic |-> TRUE]

\* A new Telemetry object: no lifecycle, no services, no round yet.
TelemetryInit ==
    /\ tel = [cycle |-> [Phase |-> PhaseUninitialized, Reason |-> ""],
              services |-> [s \in telemetryServices |-> NoChild],
              outcome |-> "None",
              rounds |-> 0]
    /\ SchedIdle /\ LifeIdle /\ red = NoRed /\ ScnIdle /\ ValIdle /\ CronIdle /\ SchIdle /\ ViewIdle /\ FinIdle /\ StopIdle /\ ReleaseIdle /\ WebhookIdle

\* The first round: the object is Uninitialized, calculateLifecycle returns
\* its lifecycle as it is, and the controller installs the services one by
\* one; the object is Pending once all are created.
telemetry_Install ==
    /\ tel # <<>> /\ tel.cycle.Phase = PhaseUninitialized
    /\ ~telemetry_calculateLifecycle(tel.cycle, tel.services).panic
    /\ \E s \in telemetryServices :
        /\ tel.services[s] = NoChild
        /\ LET installed == [tel.services EXCEPT ![s] = PhasePending]
           IN  tel' = [tel EXCEPT !.services = installed,
                                  !.cycle = IF \A t \in telemetryServices : installed[t] # NoChild
                                            THEN [Phase |-> PhasePending, Reason |-> "JobIsPending"]
                                            ELSE @]
    /\ UNCHANGED <<schedVars, lifeVars, red, scn, val, cron, sch, vw, fin, stp, rel, web>>

\* A round of an initialized Telemetry object: the view, calculateLifecycle,
\* and the write of the lifecycle, which may fail. A panic ends the round
\* with nothing written.
telemetry_Reconcile ==
    /\ tel # <<>> /\ tel.cycle.Phase # PhaseUninitialized
    /\ tel.rounds < MaxTelemetryRounds
    /\ LET calc == telemetry_calculateLifecycle(tel.cycle, tel.services)
       IN  \E statusOK \in BOOLEAN :
            tel' = [tel EXCEPT !.rounds = @ + 1,
                               !.outcome = IF calc.panic THEN "Panic"
                                           ELSE IF statusOK THEN "Written" ELSE "Requeue",
                               !.cycle = IF ~calc.panic /\ statusOK THEN calc.cycle ELSE @]
    /\ UNCHANGED <<schedVars, lifeVars, red, scn, val, cron, sch, vw, fin, stp, rel, web>>

\* A service of the stack makes progress on its own: Pending to Running or
\* Failed, Running to Success or Failed.
telemetry_ServiceStep ==
    /\ tel # <<>>
    /\ \E s \in telemetryServices, to \in {PhaseRunning, PhaseSuccess, PhaseFailed} :
        /\ \/ tel.services[s] = PhasePending /\ to \in {PhaseRunning, PhaseFailed}
           \/ tel.services[s] = PhaseRunning /\ to \in {PhaseSuccess, PhaseFailed}
        /\ tel' = [tel EXCEPT !.services[s] = to]
    /\ UNCHANGED <<schedVars, lifeVars, red, scn, val, cron, sch, vw, fin, stp, rel, web>>

TelemetryNext == telemetry_Install \/ telemetry_Reconcile \/ telemetry_ServiceStep

SpecTelemetry == TelemetryInit /\ [][TelemetryNext]_vars

\* C37: no round of the Telemetry controller ends in the panic of
\* calculateLifecycle: for the phase and the view of every round one row of
\* its decision list matches.
C37_NoUnhandledConditions == tel # <<>> => tel.outcome # "Panic"

\* ---- rounds of an object under deletion
\* C38: a round that loads an object whose deletion timestamp is set, with
\* or without the controller's finalizer on it, is told to return by
\* common.Reconcile: the controller's own logic does not run and no child
\* is created.
C38_NoMainLogicUnderDeletion ==
    (Loaded /\ fin.res.deleting) => (~fin.res.main /\ ~fin.res.created)

\* ------------------------------------- the release of an object, fairly
\* The rounds of common.Reconcile together with the request queue of the
\* controller: a round runs when a request for the object is queued. A
\* request is queued by an event on the object (its creation, a write, the
\* request of its deletion) and by a round that returns RequeueWithError or
\* RequeueAfter. Finalize and the calls of the object store fail at most
\* MaxFaults times each.
ReleaseInit ==
    /\ \E foreign \in BOOLEAN :
        rel = [exists |-> TRUE, deleting |-> FALSE, finalizer |-> FALSE,
               foreign |-> foreign, queued |-> TRUE,
               finFaults |-> 0, storeFaults |-> 0,
               outcome |-> "", write |-> "none", main |-> FALSE]
    /\ SchedIdle /\ LifeIdle /\ red = NoRed /\ ScnIdle /\ ValIdle /\ CronIdle /\ SchIdle /\ ViewIdle /\ FinIdle /\ StopIdle /\ TelemetryIdle /\ WebhookIdle

\* The outcomes of a round that put the request back on the queue.
Requeues == {"RequeueWithError", "RequeueAfter"}

\* One round on a queued request: common.Reconcile and, when it says so, the
\* controller's own logic. The request is queued again when the round
\* returns a requeue, and by the event of the round's own write.
release_Round ==
    /\ rel.queued
    /\ \E get \in (IF rel.exists THEN {"nil", "error"} ELSE {"NotFound", "error"}),
          finErr \in BOOLEAN, updateErr \in BOOLEAN :
        LET obj == [deleting |-> rel.deleting, finalizer |-> rel.finalizer]
            ret == common_Reconcile(obj, get, finErr, updateErr)
            storeErr == get = "error" \/ updateErr
            gone == ret.write = "removed" /\ ~rel.foreign
        IN  /\ (~ret.finalized => ~finErr)
            /\ (ret.write = "none" => ~updateErr)
            /\ (finErr => rel.finFaults < MaxFaults)
            /\ (storeErr => rel.storeFaults < MaxFaults)
            /\ rel' = [rel EXCEPT
                         !.finalizer = IF ret.write = "added" THEN TRUE
                                       ELSE IF ret.write = "removed" THEN FALSE ELSE @,
                         !.exists = IF gone THEN FALSE ELSE @,
                         !.queued = \/ ret.outcome \in Requeues
                                    \/ ret.write = "added"
                                    \/ ret.write = "removed" /\ ~gone,
                         !.finFaults = IF finErr THEN @ + 1 ELSE @,
                         !.storeFaults = IF storeErr THEN @ + 1 ELSE @,
                         !.outcome = ret.outcome,
                         !.write = ret.write,
                         !.main = ~ret.requeue]
    /\ UNCHANGED <<schedVars, lifeVars, red, scn, val, cron, sch, vw, fin, stp, tel, web>>

\* The deletion of the object is requested: the store sets the deletion
\* timestamp, keeps the object as long as it carries a finalizer, and the
\* event queues a request.
release_RequestDelete ==
    /\ rel.exists /\ ~rel.deleting
    /\ rel' = [rel EXCEPT !.deleting = TRUE,
                          !.exists = rel.finalizer \/ rel.foreign,
                          !.queued = TRUE]
    /\ UNCHANGED <<schedVars, lifeVars, red, scn, val, cron, sch, vw, fin, stp, tel, web>>

\* The owner of the other finalizer removes it; the event queues a request.
release_ForeignRelease ==
    /\ rel.exists /\ rel.deleting /\ rel.foreign
    /\ rel' = [rel EXCEPT !.foreign = FALSE, !.exists = rel.finalizer, !.queued = TRUE]
    /\ UNCHANGED <<schedVars, lifeVars, red, scn, val, cron, sch, vw, fin, stp, tel, web>>

ReleaseNext == release_Round \/ release_RequestDelete \/ release_ForeignRelease

\* The work queue hands every queued request to a worker: a round that can
\* run does run.
SpecRelease == ReleaseInit /\ [][ReleaseNext]_vars /\ WF_vars(release_Round)

\* The object is under deletion and carries the controller's finalizer.
HeldByFinalizer == rel.exists /\ rel.deleting /\ rel.finalizer

\* The controller's finalizer is off the object, and the object is gone from
\* the store unless somebody else's finalizer holds it.
Released == ~rel.finalizer /\ (rel.exists => rel.foreign)

\* C39: once the deletion of an object that carries the finalizer is
\* requested, the finalizer is eventually removed and the object released,
\* given that Finalize and the calls of the object store stop failing and
\* every queued request is served.
C39_EventuallyReleased == HeldByFinalizer ~> Released

\* The object was released by a round that removed the finalizer after
\* Finalize had failed and the store had failed in earlier rounds.
C39_Witness ==
    /\ rel # <<>> /\ rel.deleting /\ Released
    /\ rel.write = "removed"
    /\ rel.finFaults >= 1 /\ rel.storeFaults >= 1

\* ------------------------------------------------- the webhook server
\* CreateWebhookServer starts two goroutines and returns. The first runs
\* srv.ListenAndServe and sends its error, unless it is ErrServerClosed, on
\* the unbuffered channel idleConnectionsClosed. The second waits for the
\* context or for that error, shuts the server down and closes the channel.
\*   main: the position of CreateWebhookServer itself
\*   g1:   "idle" (not started), "serve" (in ListenAndServe), "err" (holds an
\*         error, before the send), "send" (blocked in the send), "exit",
\*         "panic" (send on a closed channel)
\*   g2:   "idle", "select", "shutdown", "close", "exit"
WebhookInit ==
    /\ web = [main |-> "start", ctx |-> "live", srv |-> "new",
              g1 |-> "idle", g2 |-> "idle", chan |-> "open", got |-> "none",
              shutdownErr |-> FALSE, handled |-> 0, dropped |-> 0]
    /\ SchedIdle /\ LifeIdle /\ red = NoRed /\ ScnIdle /\ ValIdle /\ CronIdle /\ SchIdle /\ ViewIdle /\ FinIdle /\ StopIdle /\ TelemetryIdle /\ ReleaseIdle

\* CreateWebhookServer: go func() {ListenAndServe ...}(), go func() {select
\* ...}(), return nil.
webhook_Start ==
    /\ web.main # "returned"
    /\ web' = IF web.main = "start" THEN [web EXCEPT !.main = "first", !.g1 = "serve"]
              ELSE IF web.main = "first" THEN [web EXCEPT !.main = "second", !.g2 = "select"]
              ELSE [web EXCEPT !.main = "returned"]
    /\ UNCHANGED <<schedVars, lifeVars, red, scn, val, cron, sch, vw, fin, stp, tel, rel>>

\* The context of the controller is cancelled.
webhook_Cancel ==
    /\ web.ctx = "live"
    /\ web' = [web EXCEPT !.ctx = "cancelled"]
    /\ UNCHANGED <<schedVars, lifeVars, red, scn, val, cron, sch, vw, fin, stp, tel, rel>>

\* srv.ListenAndServe in the first goroutine: it starts serving, or fails
\* (the port is taken; later, the listener breaks), or returns
\* ErrServerClosed because the server was shut down.
webhook_ListenAndServe ==
    /\ web.g1 = "serve"
    /\ \/ /\ web.srv = "new"
          /\ \E ok \in BOOLEAN :
                web' = IF ok THEN [web EXCEPT !.srv = "serving"]
                       ELSE [web EXCEPT !.srv = "failed", !.g1 = "err"]
       \/ /\ web.srv = "serving"
          /\ web' = [web EXCEPT !.srv = "failed", !.g1 = "err"]
       \/ /\ web.srv = "closed"
          /\ web' = [web EXCEPT !.g1 = "exit"]
    /\ UNCHANGED <<schedVars, lifeVars, red, scn, val, cron, sch, vw, fin, stp, tel, rel>>

\* The handler of the webhook: an alert arrives while the server serves;
\* DispatchAlert handles it, or fails and the alert is dropped.
webhook_Handle ==
    /\ web.srv = "serving"
    /\ web.handled + web.dropped < MaxAlerts
    /\ \E err \in BOOLEAN :
        web' = IF err THEN [web EXCEPT !.dropped = @ + 1] ELSE [web EXCEPT !.handled = @ + 1]
    /\ UNCHANGED <<schedVars, lifeVars, red, scn, val, cron, sch, vw, fin, stp, tel, rel>>

\* idleConnectionsClosed <- err in the first goroutine: on a closed channel
\* the send panics; on an open one it hands the error to the second
\* goroutine when that one waits in its select, and blocks otherwise.
webhook_Send ==
    /\ web.g1 \in {"err", "send"}
    /\ IF web.chan = "closed"
       THEN web' = [web EXCEPT !.g1 = "panic"]
       ELSE IF web.g2 = "select"
       THEN web' = [web EXCEPT !.g1 = "exit", !.g2 = "shutdown", !.got = "err"]
       ELSE /\ web.g1 = "err"
            /\ web' = [web EXCEPT !.g1 = "send"]
    /\ UNCHANGED <<schedVars, lifeVars, red, scn, val, cron, sch, vw, fin, stp, tel, rel>>

\* case <-ctx.Done() of the select in the second goroutine.
webhook_Done ==
    /\ web.g2 = "select" /\ web.ctx = "cancelled"
    /\ web' = [web EXCEPT !.g2 = "shutdown", !.got = "ctx"]
    /\ UNCHANGED <<schedVars, lifeVars, red, scn, val, cron, sch, vw, fin, stp, tel, rel>>

\* srv.Shutdown(gracefulShutDown): the server is closed, whatever Shutdown
\* returns; its error is logged.
webhook_Shutdown ==
    /\ web.g2 = "shutdown"
    /\ \E err \in BOOLEAN :
        web' = [web EXCEPT !.g2 = "close", !.shutdownErr = err,
                           !.srv = IF @ = "failed" THEN @ ELSE "closed"]
    /\ UNCHANGED <<schedVars, lifeVars, red, scn, val, cron, sch, vw, fin, stp, tel, rel>>

\* close(idleConnectionsClosed): a goroutine blocked in a send on the channel
\* panics.
webhook_Close ==
    /\ web.g2 = "close"
    /\ web' = [web EXCEPT !.g2 = "exit", !.chan = "closed",
                          !.g1 = IF @ = "send" THEN "panic" ELSE @]
    /\ UNCHANGED <<schedVars, lifeVars, red, scn, val, cron, sch, vw, fin, stp, tel, rel>>

WebhookNext ==
    \/ webhook_Start \/ webhook_Cancel \/ webhook_ListenAndServe \/ webhook_Handle
    \/ webhook_Send \/ webhook_Done \/ webhook_Shutdown \/ webhook_Close

SpecWebhook == WebhookInit /\ [][WebhookNext]_vars

\* C40: no goroutine sends on idleConnectionsClosed after the channel was
\* closed (the send would panic), and a goroutine blocked in a send on it
\* has a receiver waiting for it or still to come.
C40_NoSendOnClosedChannel ==
    /\ web.g1 # "panic"
    /\ web.chan = "closed" => web.g1 \notin {"err", "send"}
    /\ web.g1 = "send" => web.g2 \in {"idle", "select"}
====
